---- MODULE Spec2Model ----
(***************************************************************************)
(* TrendRadar message_sender: the byte-budget batch partitioner            *)
(* (split_content_into_batches) and the batch header injector              *)
(* (add_batch_headers, _get_batch_header, _truncate_to_bytes).             *)
(*                                                                         *)
(* A string is modelled by what the size arithmetic sees of it.  In the    *)
(* partitioner a string is a sequence of fragments (tokens), one per       *)
(* f-string the code builds, and its UTF-8 size is the sum of the byte     *)
(* sizes of the fragments, counted from the templates of the source.  In   *)
(* the header injector a string is a sequence of characters, each given    *)
(* by its UTF-8 width (1..4 bytes).                                        *)
(***************************************************************************)
EXTENDS Integers, Sequences, FiniteSets, TLC

\* ---------------------------------------------------------------- bounds
MaxWords == 2
MaxTitles == 2
MaxSources == 1
MaxFailed == 1
MaxBatches == 2
MaxChars == 2
MaxTruncBytes == 9
MaxSendBatches == 3
MaxAccounts == 3
MaxRuns == 2

\* ------------------------------------------------------- input domains
FormatTypes == {"wework", "bark", "telegram", "ntfy", "feishu", "dingtalk", "slack", "unknown"}
Modes == {"daily", "incremental", "current"}
\* get_beijing_time() at the call: two instants that render differently
Times == {"t1", "t2"}
\* <<mode, update_info, REVERSE_CONTENT_ORDER, now>>: every mode, every pair of
\* the two flags, both instants.
CallVariants ==
    {<<"daily", FALSE, FALSE, "t1">>, <<"incremental", TRUE, FALSE, "t2">>,
     <<"current", FALSE, TRUE, "t1">>, <<"daily", TRUE, TRUE, "t2">>}
MaxBytesChoices == {60, 260}
\* the budgets that the wework, bark and feishu dialects meet exactly when the
\* new titles of a report come first: 161 at the stats banner test, 148 with
\* the newline after a source group of two titles
BoundaryBudgets == {148, 161}
BoundaryFormats == {"wework", "bark", "feishu"}
BoundaryVariant == <<"current", FALSE, TRUE, "t1">>
Budgets(fmt, v) ==
    MaxBytesChoices \cup
        (IF fmt \in BoundaryFormats /\ v = BoundaryVariant THEN BoundaryBudgets ELSE {})
Profiles == {"short", "mixed"}
HeaderFormats == {"telegram", "slack", "wework_text", "bark", "feishu"}
HeaderMaxBytes == {3, 20, 24, 40}
CharWidths == {1, 3, 4}
\* the max_bytes given to _truncate_to_bytes: add_batch_headers passes
\* max_bytes - header_size, which is negative for a small max_bytes
TruncSizes == (0 - 2)..MaxTruncBytes

\* ------------------------------------------------------------- helpers
RECURSIVE Digits(_)
Digits(n) == IF n < 10 THEN 1 ELSE 1 + Digits(n \div 10)

RECURSIVE SumSeq(_)
SumSeq(s) == IF s = <<>> THEN 0 ELSE Head(s) + SumSeq(Tail(s))

RECURSIVE Flatten(_)
Flatten(ss) == IF ss = <<>> THEN <<>> ELSE Head(ss) \o Flatten(Tail(ss))

SeqsUpTo(S, n) == UNION {[1..k -> S] : k \in 0..n}

VARIABLES
    format_type,      \* argument format_type
    max_bytes,        \* argument max_bytes
    mode,             \* argument mode
    update_info,      \* argument update_info (TRUE: a newer version is announced)
    reverse_order,    \* CONFIG["REVERSE_CONTENT_ORDER"]
    now,              \* get_beijing_time() as read at line 136
    report_data,      \* argument report_data
    pc,               \* position in split_content_into_batches
    sect,             \* index of the section being processed (1..3)
    wi,               \* loop index over words / source groups / failed ids
    tj,               \* loop index over the titles of the current word / source
    current_batch,
    current_batch_has_content,
    batches,
    hb_batches,       \* add_batch_headers: argument batches
    hb_format,        \* add_batch_headers: argument format_type
    hb_max,           \* add_batch_headers: argument max_bytes
    hb_pc,            \* position in add_batch_headers
    hb_i,             \* loop index of add_batch_headers (1-based)
    hb_result,        \* add_batch_headers: the returned list
    hb_warned,        \* batch numbers for which the warning was printed
    run,              \* which call of split_content_into_batches this is (1 or 2)
    first_batches,    \* the list the first call returned
    tr_text,          \* _truncate_to_bytes: argument text
    tr_n,             \* _truncate_to_bytes: argument max_bytes
    tr_pc,            \* position in _truncate_to_bytes
    tr_out,           \* _truncate_to_bytes: the returned string
    sn_sender,        \* which send_to_* function runs
    sn_device_key,    \* send_to_bark: a device key was found in the URL
    sn_total,         \* len(batches) after add_batch_headers
    sn_pc,            \* position in the send loop
    sn_idx,           \* loop index of the send loop (1-based)
    sn_log,           \* requests posted and waits, in order
    sn_success_count, \* success_count of send_to_ntfy / send_to_bark
    sn_return,        \* the value returned ("none" while running)
    nt_config,        \* send_to_notifications: the CONFIG it reads
    nt_in_range,      \* what push_manager.is_in_time_range answers in this run
    nt_pushed,        \* the push record of today
    nt_pc,            \* position in send_to_notifications
    nt_prepared,      \* prepare_report_data was called in this run
    nt_sent,          \* the send_to_* calls of this run, in order
    nt_results,       \* results
    nt_recorded,      \* record_push was called in this run
    nt_history        \* the earlier runs of today

splitVars == <<format_type, max_bytes, mode, update_info, reverse_order, now, report_data,
               pc, sect, wi, tj, current_batch, current_batch_has_content, batches>>
hbVars == <<hb_batches, hb_format, hb_max, hb_pc, hb_i, hb_result, hb_warned>>
rerunVars == <<run, first_batches>>
truncVars == <<tr_text, tr_n, tr_pc, tr_out>>
sendVars == <<sn_sender, sn_device_key, sn_total, sn_pc, sn_idx, sn_log,
              sn_success_count, sn_return>>
notifyVars == <<nt_config, nt_in_range, nt_pushed, nt_pc, nt_prepared, nt_sent,
                nt_results, nt_recorded, nt_history>>
vars == <<format_type, max_bytes, mode, update_info, reverse_order, now, report_data,
          pc, sect, wi, tj, current_batch, current_batch_has_content, batches,
          hb_batches, hb_format, hb_max, hb_pc, hb_i, hb_result, hb_warned,
          run, first_batches, tr_text, tr_n, tr_pc, tr_out,
          sn_sender, sn_device_key, sn_total, sn_pc, sn_idx, sn_log,
          sn_success_count, sn_return,
          nt_config, nt_in_range, nt_pushed, nt_pc, nt_prepared, nt_sent,
          nt_results, nt_recorded, nt_history>>
\* what the partitioner, and what the header injector, leaves alone
notSplitVars == <<hbVars, rerunVars, truncVars, sendVars, notifyVars>>
notHbVars == <<splitVars, rerunVars, truncVars, sendVars, notifyVars>>

\* ------------------------------------------------------- report inputs
\* Raw title sizes in bytes: a short title, and one that alone exceeds the
\* smaller budgets.
TitleLen(p, i, j) ==
    IF p = "short" THEN 2
    ELSE IF (i + j) % 2 = 0 THEN 130 ELSE 2

MkTitles(p, i, n) == [j \in 1..n |-> [title |-> TitleLen(p, i, j), is_new |-> (j % 2 = 1)]]

\* stat["count"] is supplied by the caller; the three emoji tiers are covered.
CountOf(i, n) == IF n = 0 THEN 3 ELSE IF i % 2 = 1 THEN 12 ELSE 5

MkStats(p, shape) ==
    [i \in 1..Len(shape) |->
        [word |-> 1, count |-> CountOf(i, shape[i]), titles |-> MkTitles(p, i, shape[i])]]

MkSources(p, shape) ==
    [i \in 1..Len(shape) |-> [source_name |-> 1, titles |-> MkTitles(p, i + 1, shape[i])]]

MkFailed(n) == [i \in 1..n |-> 1]

\* The reports: nw words, ns source groups (none or MaxSources), nf failed
\* ids (none or MaxFailed); every word and source has k titles, or (alt) the
\* even words and the sources have MaxTitles - k.
WordShape(nw, k, alt) == [i \in 1..nw |-> IF alt /\ i % 2 = 0 THEN MaxTitles - k ELSE k]
SourceShape(ns, k, alt) == [i \in 1..ns |-> IF alt THEN MaxTitles - k ELSE k]

Reports ==
    {[stats |-> MkStats(p, WordShape(nw, k, alt)),
      new_titles |-> MkSources(p, SourceShape(ns, k, alt)),
      failed_ids |-> MkFailed(nf),
      total_new_count |-> SumSeq(SourceShape(ns, k, alt))] :
        p \in Profiles, nw \in 0..MaxWords, ns \in {0, MaxSources},
        nf \in {0, MaxFailed}, k \in 0..MaxTitles, alt \in BOOLEAN}

\* ------------------------------------------------------------ fragments
\* One token per fragment the code concatenates.  k: the kind, i: the word /
\* source / failed-id index, j: the title index, f: the formatter platform of
\* a title line ("raw": the title is used unformatted), the sentinel text, or
\* the time a header or footer renders.
Tok(k, i, j, f) == [k |-> k, i |-> i, j |-> j, f |-> f]

\* only the dingtalk header renders the time; every footer does
BaseHeader == Tok("base_header", 0, 0, IF format_type = "dingtalk" THEN now ELSE "")
BaseFooter == Tok("base_footer", 0, 0, IF format_type \in FormatTypes \ {"unknown"} THEN now ELSE "")
StatsHeader == Tok("stats_header", 0, 0, "")
NewHeader == Tok("new_header", 0, 0, "")
FailedHeader == Tok("failed_header", 0, 0, "")
Separator(i) == Tok("separator", i, 0, "")
Newline(i) == Tok("newline", i, 0, "")
WordHeader(i) == Tok("word_header", i, 0, "")
SourceHeader(i) == Tok("source_header", i, 0, "")
FailedLine(i) == Tok("failed_line", i, 0, "")

total_titles ==
    SumSeq([i \in 1..Len(report_data.stats) |->
              IF report_data.stats[i].count > 0 THEN Len(report_data.stats[i].titles) ELSE 0])

\* len(now.strftime('%Y-%m-%d %H:%M:%S').encode("utf-8"))
TimeBytes == 19
\* len(VERSION): the version strings of update_info
VersionBytes == 5
\* len(CONFIG["FEISHU_MESSAGE_SEPARATOR"].encode("utf-8")), "---" by default
FeishuSepBytes == 3

BaseHeaderBytes ==
    CASE format_type \in {"wework", "bark"} -> 24 + Digits(total_titles)
      [] format_type = "telegram" -> 18 + Digits(total_titles)
      [] format_type = "ntfy" -> 22 + Digits(total_titles)
      [] format_type = "feishu" -> 0
      [] format_type = "dingtalk" -> 22 + Digits(total_titles) + 16 + TimeBytes + 34 + 5
      [] format_type = "slack" -> 20 + Digits(total_titles)
      [] OTHER -> 0

BaseFooterBytes ==
    CASE format_type \in {"wework", "bark"} ->
            20 + TimeBytes + (IF update_info THEN 48 + 2 * VersionBytes ELSE 0)
      [] format_type = "telegram" ->
            17 + TimeBytes + (IF update_info THEN 38 + 2 * VersionBytes ELSE 0)
      [] format_type = "ntfy" ->
            19 + TimeBytes + (IF update_info THEN 48 + 2 * VersionBytes ELSE 0)
      [] format_type = "feishu" ->
            43 + TimeBytes + (IF update_info THEN 64 + 2 * VersionBytes ELSE 0)
      [] format_type = "dingtalk" ->
            19 + TimeBytes + (IF update_info THEN 48 + 2 * VersionBytes ELSE 0)
      [] format_type = "slack" ->
            17 + TimeBytes + (IF update_info THEN 43 + 2 * VersionBytes ELSE 0)
      [] OTHER -> 0

\* the markdown banner for every other dialect
StatsHeaderBytesDefaulted ==
    IF Len(report_data.stats) = 0 THEN 0
    ELSE CASE format_type = "telegram" -> 25
           [] format_type = "slack" -> 27
           [] OTHER -> 29

StatsHeaderBytes ==
    IF Len(report_data.stats) = 0 THEN 0
    ELSE CASE format_type \in {"wework", "bark", "ntfy", "feishu", "dingtalk"} -> 29
           [] format_type = "telegram" -> 25
           [] format_type = "slack" -> 27
           [] OTHER -> 0

\* sequence_display = f"[{i + 1}/{total_count}]"
SequenceDisplayBytes(i) == 3 + Digits(i) + Digits(Len(report_data.stats))

WordHeaderBytes(i) ==
    LET stat == report_data.stats[i]
        var == SequenceDisplayBytes(i) + stat.word + Digits(stat.count)
    IN  CASE format_type \in {"wework", "bark", "ntfy", "dingtalk"} ->
                IF stat.count >= 10 THEN 23 + var
                ELSE IF stat.count >= 5 THEN 23 + var
                ELSE 19 + var
          [] format_type = "telegram" -> 15 + var
          [] format_type = "feishu" ->
                IF stat.count >= 10 THEN 70 + var
                ELSE IF stat.count >= 5 THEN 73 + var
                ELSE 45 + var
          [] format_type = "slack" ->
                IF stat.count >= 10 THEN 19 + var
                ELSE IF stat.count >= 5 THEN 19 + var
                ELSE 17 + var
          [] OTHER -> 0

SeparatorBytes ==
    CASE format_type \in {"wework", "bark"} -> 4
      [] format_type \in {"telegram", "ntfy", "slack"} -> 2
      [] format_type = "feishu" -> 3 + FeishuSepBytes
      [] format_type = "dingtalk" -> 6
      [] OTHER -> 0

NewHeaderBytes ==
    LET d == Digits(report_data.total_new_count)
    IN  CASE format_type \in {"wework", "bark"} -> 50 + d
          [] format_type = "telegram" -> 44 + d
          [] format_type = "ntfy" -> 48 + d
          [] format_type = "feishu" -> 49 + FeishuSepBytes + d
          [] format_type = "dingtalk" -> 52 + d
          [] format_type = "slack" -> 46 + d
          [] OTHER -> 0

SourceHeaderBytes(i) ==
    LET src == report_data.new_titles[i]
        var == src.source_name + Digits(Len(src.titles))
    IN  CASE format_type \in {"wework", "bark", "ntfy", "feishu", "dingtalk"} -> 14 + var
          [] format_type = "telegram" -> 10 + var
          [] format_type = "slack" -> 12 + var
          [] OTHER -> 0

FailedHeaderBytes ==
    CASE format_type = "wework" -> 47
      [] format_type = "telegram" -> 41
      [] format_type = "ntfy" -> 45
      [] format_type = "feishu" -> 46 + FeishuSepBytes
      [] format_type = "dingtalk" -> 49
      [] OTHER -> 0

FailedLineBytes(i) ==
    CASE format_type = "feishu" -> 32 + report_data.failed_ids[i]
      [] format_type = "dingtalk" -> 11 + report_data.failed_ids[i]
      [] OTHER -> 7 + report_data.failed_ids[i]

\* the "current" branch missing
ModeTextNoCurrent(m) == IF m = "incremental" THEN "incremental" ELSE "default"

ModeText(m) ==
    IF m = "incremental" THEN "incremental"
    ELSE IF m = "current" THEN "current"
    ELSE "default"

SimpleContent(m) == Tok("simple_content", 0, 0, ModeText(m))

SimpleContentBytes(text) == IF text = "default" THEN 34 ELSE 55

\* format_title_for_platform(platform, title_data, show_source): the size of
\* the formatted title; the source tag and the new-item marker add bytes.
FormatTitleBytes(platform, title_data, show_source) ==
    title_data.title + (IF show_source THEN 4 ELSE 0) + (IF title_data.is_new THEN 5 ELSE 0)

\* The platform whose formatter renders the titles of the stats section.
StatsPlatform ==
    CASE format_type \in {"wework", "bark"} -> "wework"
      [] format_type \in {"telegram", "ntfy", "feishu", "dingtalk", "slack"} -> format_type
      [] OTHER -> "raw"

\* ... the first title of a source group of the new-titles section.
NewFirstPlatform ==
    CASE format_type \in {"wework", "bark"} -> "wework"
      [] format_type \in {"telegram", "feishu", "dingtalk", "slack"} -> format_type
      [] OTHER -> "raw"

\* ... the remaining titles of a source group.
NewRestPlatform ==
    CASE format_type \in {"wework", "telegram", "feishu", "dingtalk", "slack"} -> format_type
      [] OTHER -> "raw"

StatsLine(i, j) == Tok("news_line", i, j, StatsPlatform)
NewLine(i, j) == Tok("new_line", i, j, IF j = 1 THEN NewFirstPlatform ELSE NewRestPlatform)

FormattedBytes(platform, title_data, show_source) ==
    IF platform = "raw" THEN title_data.title
    ELSE FormatTitleBytes(platform, title_data, show_source)

\* f"  {j + 1}. {formatted_title}\n", plus "\n" when another title follows
StatsLineBytes(t) ==
    LET titles == report_data.stats[t.i].titles
    IN  4 + Digits(t.j) + FormattedBytes(t.f, titles[t.j], TRUE) + 1
          + (IF t.j < Len(titles) THEN 1 ELSE 0)

\* the flag cleared through an alias of the caller's entry
CopyAliased(title_data) ==
    LET title_data_copy == [title_data EXCEPT !.is_new = FALSE]
    IN  [title_data |-> title_data_copy, title_data_copy |-> title_data_copy]

\* title_data_copy = title_data.copy(); title_data_copy["is_new"] = False:
\* the caller's entry and the copy after the two statements
Copy(title_data) ==
    [title_data |-> title_data,
     title_data_copy |-> [title_data EXCEPT !.is_new = FALSE]]

\* the title is formatted from a copy whose is_new flag is cleared
NewLineBytes(t) ==
    LET title_data_copy == Copy(report_data.new_titles[t.i].titles[t.j]).title_data_copy
    IN  4 + Digits(t.j) + FormattedBytes(t.f, title_data_copy, FALSE) + 1

TokBytes(t) ==
    CASE t.k = "base_header" -> BaseHeaderBytes
      [] t.k = "base_footer" -> BaseFooterBytes
      [] t.k = "stats_header" -> StatsHeaderBytes
      [] t.k = "new_header" -> NewHeaderBytes
      [] t.k = "failed_header" -> FailedHeaderBytes
      [] t.k = "separator" -> SeparatorBytes
      [] t.k = "newline" -> 1
      [] t.k = "word_header" -> WordHeaderBytes(t.i)
      [] t.k = "source_header" -> SourceHeaderBytes(t.i)
      [] t.k = "failed_line" -> FailedLineBytes(t.i)
      [] t.k = "news_line" -> StatsLineBytes(t)
      [] t.k = "new_line" -> NewLineBytes(t)
      [] t.k = "simple_content" -> SimpleContentBytes(t.f)

\* len(s.encode("utf-8")) of a string given as its fragments
RECURSIVE Bytes(_)
Bytes(s) == IF s = <<>> THEN 0 ELSE TokBytes(Head(s)) + Bytes(Tail(s))

\* ------------------------------------------- split_content_into_batches
EmptyReport ==
    /\ Len(report_data.stats) = 0
    /\ Len(report_data.new_titles) = 0
    /\ Len(report_data.failed_ids) = 0

\* the order flag ignored
SectionOrderFixed(reverse) == <<"stats", "new_titles", "failed_ids">>

\* CONFIG.get("REVERSE_CONTENT_ORDER", False) decides which section runs first;
\* the failed-ids block follows both.
SectionOrder(reverse) ==
    IF reverse THEN <<"new_titles", "stats", "failed_ids">>
    ELSE <<"stats", "new_titles", "failed_ids">>

Section == SectionOrder(reverse_order)[sect]

\* the flushed batch clipped to its last fragment when it is over the budget
EmitClipped(cur) ==
    IF Bytes(cur) + Bytes(<<BaseFooter>>) > max_bytes /\ Len(cur) > 1
    THEN SubSeq(cur, 1, Len(cur) - 1) \o <<BaseFooter>>
    ELSE cur \o <<BaseFooter>>

\* batches.append(current_batch + base_footer)
Emit(cur) == cur \o <<BaseFooter>>

\* the fit test without the footer
PackNoFooter(cur, has, bs, prefix, unit) ==
    IF Bytes(cur \o unit) >= max_bytes
    THEN [bs |-> IF has THEN Append(bs, cur \o <<BaseFooter>>) ELSE bs,
          cur |-> prefix \o unit,
          has |-> TRUE]
    ELSE [bs |-> bs, cur |-> cur \o unit, has |-> TRUE]

\* the banner and the first line of a unit tested one after the other
PackPiecewise(cur, has, bs, prefix, unit) ==
    LET step(c, h, b, u) ==
            IF Bytes(c \o u) + Bytes(<<BaseFooter>>) >= max_bytes
            THEN [bs |-> IF h THEN Append(b, c \o <<BaseFooter>>) ELSE b,
                  cur |-> prefix \o u,
                  has |-> TRUE]
            ELSE [bs |-> b, cur |-> c \o u, has |-> TRUE]
    IN  IF Len(unit) <= 1 THEN step(cur, has, bs, unit)
        ELSE LET r == step(cur, has, bs, <<unit[1]>>)
             IN  step(r.cur, r.has, r.bs, Tail(unit))

\* the flushed batch is not replaced by a fresh one
PackNoReseed(cur, has, bs, prefix, unit) ==
    IF Bytes(cur \o unit) + Bytes(<<BaseFooter>>) >= max_bytes
    THEN [bs |-> IF has THEN Append(bs, cur \o <<BaseFooter>>) ELSE bs,
          cur |-> cur \o unit,
          has |-> TRUE]
    ELSE [bs |-> bs, cur |-> cur \o unit, has |-> TRUE]

\* the footer kept for the last batch only
PackFlushBare(cur, has, bs, prefix, unit) ==
    IF Bytes(cur \o unit) + Bytes(<<BaseFooter>>) >= max_bytes
    THEN [bs |-> IF has THEN Append(bs, cur) ELSE bs,
          cur |-> prefix \o unit,
          has |-> TRUE]
    ELSE [bs |-> bs, cur |-> cur \o unit, has |-> TRUE]

\* the flushed batch put at the head of the list
PackPrepend(cur, has, bs, prefix, unit) ==
    IF Bytes(cur \o unit) + Bytes(<<BaseFooter>>) >= max_bytes
    THEN [bs |-> IF has THEN <<cur \o <<BaseFooter>>>> \o bs ELSE bs,
          cur |-> prefix \o unit,
          has |-> TRUE]
    ELSE [bs |-> bs, cur |-> cur \o unit, has |-> TRUE]

\* The test-then-commit step shared by every candidate unit:
\*   test_content = current_batch + unit
\*   if len(test_content) + len(base_footer) >= max_bytes: flush (when the
\*   batch has content) and re-seed with prefix + unit, else append.
Pack(cur, has, bs, prefix, unit) ==
    IF Bytes(cur \o unit) + Bytes(<<BaseFooter>>) >= max_bytes
    THEN [bs |-> IF has THEN Append(bs, Emit(cur)) ELSE bs,
          cur |-> prefix \o unit,
          has |-> TRUE]
    ELSE [bs |-> bs, cur |-> cur \o unit, has |-> TRUE]

\* the banner appended when the sum equals the budget
PackStatsHeaderLenient(cur, has, bs) ==
    IF Bytes(cur \o <<StatsHeader>>) + Bytes(<<BaseFooter>>) <= max_bytes
    THEN [bs |-> bs, cur |-> cur \o <<StatsHeader>>, has |-> TRUE]
    ELSE [bs |-> IF has THEN Append(bs, Emit(cur)) ELSE bs,
          cur |-> <<BaseHeader, StatsHeader>>,
          has |-> TRUE]

\* The stats banner is tested with "<" and the branches the other way round.
PackStatsHeader(cur, has, bs) ==
    IF Bytes(cur \o <<StatsHeader>>) + Bytes(<<BaseFooter>>) < max_bytes
    THEN [bs |-> bs, cur |-> cur \o <<StatsHeader>>, has |-> TRUE]
    ELSE [bs |-> IF has THEN Append(bs, Emit(cur)) ELSE bs,
          cur |-> <<BaseHeader, StatsHeader>>,
          has |-> TRUE]

\* the separator appended without the test
PackSeparatorUntested(cur, i) == cur \o <<Separator(i)>>

\* The separator is appended only when it fits; nothing happens otherwise.
PackSeparator(cur, i) ==
    IF Bytes(cur \o <<Separator(i)>>) + Bytes(<<BaseFooter>>) < max_bytes
    THEN cur \o <<Separator(i)>>
    ELSE cur

\* word_with_first_news = word_header + first_news_line
WordWithFirstNews(i) ==
    <<WordHeader(i)>> \o
        (IF Len(report_data.stats[i].titles) > 0 THEN <<StatsLine(i, 1)>> ELSE <<>>)

\* source_with_first_news = source_header + first_news_line
SourceWithFirstNews(i) ==
    <<SourceHeader(i)>> \o
        (IF Len(report_data.new_titles[i].titles) > 0 THEN <<NewLine(i, 1)>> ELSE <<>>)

Store(r) ==
    /\ current_batch' = r.cur
    /\ current_batch_has_content' = r.has
    /\ batches' = r.bs

ArgsUnchanged ==
    UNCHANGED <<format_type, max_bytes, mode, update_info, reverse_order, now, report_data>>

\* The caller's report after title j of source group i was copied.
AfterCopy(i, j) ==
    IF j <= Len(report_data.new_titles[i].titles)
    THEN [report_data EXCEPT !.new_titles[i].titles[j] = Copy(@).title_data]
    ELSE report_data

OtherArgsUnchanged ==
    UNCHANGED <<format_type, max_bytes, mode, update_info, reverse_order, now>>

SplitIdle ==
    /\ pc = "idle"
    /\ sect = 0 /\ wi = 0 /\ tj = 0
    /\ current_batch = <<>>
    /\ current_batch_has_content = FALSE
    /\ batches = <<>>
    /\ format_type = "unknown"
    /\ max_bytes = 0
    /\ mode = "daily"
    /\ update_info = FALSE
    /\ reverse_order = FALSE
    /\ now = "t1"
    /\ report_data = [stats |-> <<>>, new_titles |-> <<>>, failed_ids |-> <<>>,
                      total_new_count |-> 0]

HbIdle ==
    /\ hb_pc = "idle"
    /\ hb_batches = <<>>
    /\ hb_format = "feishu"
    /\ hb_max = 0
    /\ hb_i = 0
    /\ hb_result = <<>>
    /\ hb_warned = {}

RerunIdle ==
    /\ run = 1
    /\ first_batches = <<>>

TruncIdle ==
    /\ tr_pc = "idle"
    /\ tr_text = <<>>
    /\ tr_n = 0
    /\ tr_out = <<>>

SendIdle ==
    /\ sn_pc = "idle"
    /\ sn_sender = "feishu"
    /\ sn_device_key = TRUE
    /\ sn_total = 0
    /\ sn_idx = 0
    /\ sn_log = <<>>
    /\ sn_success_count = 0
    /\ sn_return = "none"

NotifyIdle ==
    /\ nt_pc = "idle"
    /\ nt_config = <<>>
    /\ nt_in_range = TRUE
    /\ nt_pushed = FALSE
    /\ nt_prepared = FALSE
    /\ nt_sent = <<>>
    /\ nt_results = <<>>
    /\ nt_recorded = FALSE
    /\ nt_history = <<>>

Init ==
    /\ format_type \in FormatTypes
    /\ \E v \in CallVariants :
          /\ mode = v[1]
          /\ update_info = v[2]
          /\ reverse_order = v[3]
          /\ now = v[4]
          /\ max_bytes \in Budgets(format_type, v)
    /\ mode \in Modes
    /\ report_data \in Reports
    /\ pc = "start"
    /\ sect = 0 /\ wi = 0 /\ tj = 0
    /\ current_batch = <<BaseHeader>>
    /\ current_batch_has_content = FALSE
    /\ batches = <<>>
    /\ HbIdle
    /\ RerunIdle
    /\ TruncIdle
    /\ SendIdle
    /\ NotifyIdle

\* All three lists empty: one batch with the mode's sentence, returned at once.
NoContent ==
    /\ pc = "start"
    /\ EmptyReport
    /\ batches' = Append(batches, <<BaseHeader, SimpleContent(mode), BaseFooter>>)
    /\ pc' = "done"
    /\ UNCHANGED <<sect, wi, tj, current_batch, current_batch_has_content>>
    /\ ArgsUnchanged
    /\ UNCHANGED notSplitVars

BeginSections ==
    /\ pc = "start"
    /\ ~EmptyReport
    /\ pc' = "section"
    /\ sect' = 1
    /\ UNCHANGED <<wi, tj, current_batch, current_batch_has_content, batches>>
    /\ ArgsUnchanged
    /\ UNCHANGED notSplitVars

\* "if not report_data[...]: return" / "if report_data['failed_ids']:" is false
SkipSection ==
    /\ pc = "section"
    /\ sect <= 3
    /\ Len(report_data[Section]) = 0
    /\ sect' = sect + 1
    /\ UNCHANGED <<pc, wi, tj, current_batch, current_batch_has_content, batches>>
    /\ ArgsUnchanged
    /\ UNCHANGED notSplitVars

StatsBanner ==
    /\ pc = "section"
    /\ sect <= 3
    /\ Section = "stats"
    /\ Len(report_data.stats) > 0
    /\ Store(PackStatsHeader(current_batch, current_batch_has_content, batches))
    /\ pc' = "word"
    /\ wi' = 1
    /\ UNCHANGED <<sect, tj>>
    /\ ArgsUnchanged
    /\ UNCHANGED notSplitVars

WordUnit ==
    /\ pc = "word"
    /\ Store(Pack(current_batch, current_batch_has_content, batches,
                  <<BaseHeader, StatsHeader>>, WordWithFirstNews(wi)))
    /\ tj' = 2
    /\ pc' = IF Len(report_data.stats[wi].titles) >= 2 THEN "title" ELSE "separator"
    /\ UNCHANGED <<sect, wi>>
    /\ ArgsUnchanged
    /\ UNCHANGED notSplitVars

\* the new batch without the stats banner
RemainingTitleNoStatsBanner ==
    /\ pc = "title"
    /\ Store(Pack(current_batch, current_batch_has_content, batches,
                  <<BaseHeader, WordHeader(wi)>>, <<StatsLine(wi, tj)>>))
    /\ tj' = tj + 1
    /\ pc' = IF tj < Len(report_data.stats[wi].titles) THEN "title" ELSE "separator"
    /\ UNCHANGED <<sect, wi>>
    /\ ArgsUnchanged
    /\ UNCHANGED notSplitVars

\* current_batch = base_header + stats_header + word_header + news_line on overflow
RemainingTitle ==
    /\ pc = "title"
    /\ Store(Pack(current_batch, current_batch_has_content, batches,
                  <<BaseHeader, StatsHeader, WordHeader(wi)>>, <<StatsLine(wi, tj)>>))
    /\ tj' = tj + 1
    /\ pc' = IF tj < Len(report_data.stats[wi].titles) THEN "title" ELSE "separator"
    /\ UNCHANGED <<sect, wi>>
    /\ ArgsUnchanged
    /\ UNCHANGED notSplitVars

WordSeparator ==
    /\ pc = "separator"
    /\ wi < Len(report_data.stats)
    /\ current_batch' = PackSeparator(current_batch, wi)
    /\ wi' = wi + 1
    /\ pc' = "word"
    /\ UNCHANGED <<sect, tj, current_batch_has_content, batches>>
    /\ ArgsUnchanged
    /\ UNCHANGED notSplitVars

EndStats ==
    /\ pc = "separator"
    /\ wi = Len(report_data.stats)
    /\ pc' = "section"
    /\ sect' = sect + 1
    /\ UNCHANGED <<wi, tj, current_batch, current_batch_has_content, batches>>
    /\ ArgsUnchanged
    /\ UNCHANGED notSplitVars

NewBanner ==
    /\ pc = "section"
    /\ sect <= 3
    /\ Section = "new_titles"
    /\ Len(report_data.new_titles) > 0
    /\ Store(Pack(current_batch, current_batch_has_content, batches,
                  <<BaseHeader>>, <<NewHeader>>))
    /\ pc' = "source"
    /\ wi' = 1
    /\ UNCHANGED <<sect, tj>>
    /\ ArgsUnchanged
    /\ UNCHANGED notSplitVars

SourceUnit ==
    /\ pc = "source"
    /\ Store(Pack(current_batch, current_batch_has_content, batches,
                  <<BaseHeader, NewHeader>>, SourceWithFirstNews(wi)))
    /\ tj' = 2
    /\ pc' = IF Len(report_data.new_titles[wi].titles) >= 2 THEN "new_title" ELSE "newline"
    /\ UNCHANGED <<sect, wi>>
    /\ report_data' = AfterCopy(wi, 1)
    /\ OtherArgsUnchanged
    /\ UNCHANGED notSplitVars

\* the new batch without the banner of the source group
RemainingNewTitleNoSourceBanner ==
    /\ pc = "new_title"
    /\ Store(Pack(current_batch, current_batch_has_content, batches,
                  <<BaseHeader, NewHeader>>, <<NewLine(wi, tj)>>))
    /\ tj' = tj + 1
    /\ pc' = IF tj < Len(report_data.new_titles[wi].titles) THEN "new_title" ELSE "newline"
    /\ UNCHANGED <<sect, wi>>
    /\ report_data' = AfterCopy(wi, tj)
    /\ OtherArgsUnchanged
    /\ UNCHANGED notSplitVars

\* current_batch = base_header + new_header + source_header + news_line on overflow
RemainingNewTitle ==
    /\ pc = "new_title"
    /\ Store(Pack(current_batch, current_batch_has_content, batches,
                  <<BaseHeader, NewHeader, SourceHeader(wi)>>, <<NewLine(wi, tj)>>))
    /\ tj' = tj + 1
    /\ pc' = IF tj < Len(report_data.new_titles[wi].titles) THEN "new_title" ELSE "newline"
    /\ UNCHANGED <<sect, wi>>
    /\ report_data' = AfterCopy(wi, tj)
    /\ OtherArgsUnchanged
    /\ UNCHANGED notSplitVars

\* the newline appended only when it fits
SourceNewlineTested ==
    /\ pc = "newline"
    /\ current_batch' =
          IF Bytes(current_batch \o <<Newline(wi)>>) + Bytes(<<BaseFooter>>) < max_bytes
          THEN current_batch \o <<Newline(wi)>>
          ELSE current_batch
    /\ IF wi < Len(report_data.new_titles)
       THEN /\ wi' = wi + 1
            /\ pc' = "source"
            /\ sect' = sect
       ELSE /\ wi' = wi
            /\ pc' = "section"
            /\ sect' = sect + 1
    /\ UNCHANGED <<tj, current_batch_has_content, batches>>
    /\ ArgsUnchanged
    /\ UNCHANGED notSplitVars

\* current_batch += "\n" after every source group, untested
SourceNewline ==
    /\ pc = "newline"
    /\ current_batch' = current_batch \o <<Newline(wi)>>
    /\ IF wi < Len(report_data.new_titles)
       THEN /\ wi' = wi + 1
            /\ pc' = "source"
            /\ sect' = sect
       ELSE /\ wi' = wi
            /\ pc' = "section"
            /\ sect' = sect + 1
    /\ UNCHANGED <<tj, current_batch_has_content, batches>>
    /\ ArgsUnchanged
    /\ UNCHANGED notSplitVars

FailedBanner ==
    /\ pc = "section"
    /\ sect <= 3
    /\ Section = "failed_ids"
    /\ Len(report_data.failed_ids) > 0
    /\ Store(Pack(current_batch, current_batch_has_content, batches,
                  <<BaseHeader>>, <<FailedHeader>>))
    /\ pc' = "failed"
    /\ wi' = 1
    /\ UNCHANGED <<sect, tj>>
    /\ ArgsUnchanged
    /\ UNCHANGED notSplitVars

\* the new batch of a failed-id line without the failure banner
FailedIdNoBanner ==
    /\ pc = "failed"
    /\ Store(Pack(current_batch, current_batch_has_content, batches,
                  <<BaseHeader>>, <<FailedLine(wi)>>))
    /\ IF wi < Len(report_data.failed_ids)
       THEN /\ wi' = wi + 1
            /\ pc' = "failed"
            /\ sect' = sect
       ELSE /\ wi' = wi
            /\ pc' = "section"
            /\ sect' = sect + 1
    /\ UNCHANGED tj
    /\ ArgsUnchanged
    /\ UNCHANGED notSplitVars

FailedId ==
    /\ pc = "failed"
    /\ Store(Pack(current_batch, current_batch_has_content, batches,
                  <<BaseHeader, FailedHeader>>, <<FailedLine(wi)>>))
    /\ IF wi < Len(report_data.failed_ids)
       THEN /\ wi' = wi + 1
            /\ pc' = "failed"
            /\ sect' = sect
       ELSE /\ wi' = wi
            /\ pc' = "section"
            /\ sect' = sect + 1
    /\ UNCHANGED tj
    /\ ArgsUnchanged
    /\ UNCHANGED notSplitVars

\* the batch being filled is not flushed at the end
FinalizeNoFlush ==
    /\ pc = "section"
    /\ sect > 3
    /\ pc' = "done"
    /\ UNCHANGED <<sect, wi, tj, current_batch, current_batch_has_content, batches>>
    /\ ArgsUnchanged
    /\ UNCHANGED notSplitVars

\* if current_batch_has_content: batches.append(current_batch + base_footer)
Finalize ==
    /\ pc = "section"
    /\ sect > 3
    /\ batches' = IF current_batch_has_content
                  THEN Append(batches, Emit(current_batch))
                  ELSE batches
    /\ pc' = "done"
    /\ UNCHANGED <<sect, wi, tj, current_batch, current_batch_has_content>>
    /\ ArgsUnchanged
    /\ UNCHANGED notSplitVars

Next ==
    \/ NoContent
    \/ BeginSections
    \/ SkipSection
    \/ StatsBanner
    \/ WordUnit
    \/ RemainingTitle
    \/ WordSeparator
    \/ EndStats
    \/ NewBanner
    \/ SourceUnit
    \/ RemainingNewTitle
    \/ SourceNewline
    \/ FailedBanner
    \/ FailedId
    \/ Finalize

Spec == Init /\ [][Next]_vars

\* ------------------------------------------------------ add_batch_headers
\* A character of a batch, given by its UTF-8 width.
Chr(w) == [w |-> w, batch_num |-> 0, total_batches |-> 0, style |-> ""]

\* _get_batch_header: the marker "[第 i/total 批次]" in the dialect's markup,
\* followed by a blank line; one fragment, w its UTF-8 size.
BatchHeaderStyle(fmt) ==
    CASE fmt = "telegram" -> "<b>"
      [] fmt = "slack" -> "*"
      [] fmt \in {"wework_text", "bark"} -> "plain"
      [] OTHER -> "**"

BatchHeaderBytes(fmt, batch_num, total_batches) ==
    LET d == Digits(batch_num) + Digits(total_batches)
    IN  CASE fmt = "telegram" -> 23 + d
          [] fmt = "slack" -> 18 + d
          [] fmt \in {"wework_text", "bark"} -> 16 + d
          [] OTHER -> 20 + d

\* numbering from 0
BatchHeaderZeroBased(fmt, batch_num, total_batches) ==
    [w |-> BatchHeaderBytes(fmt, batch_num - 1, total_batches),
     batch_num |-> batch_num - 1, total_batches |-> total_batches,
     style |-> BatchHeaderStyle(fmt)]

BatchHeader(fmt, batch_num, total_batches) ==
    [w |-> BatchHeaderBytes(fmt, batch_num, total_batches),
     batch_num |-> batch_num, total_batches |-> total_batches,
     style |-> BatchHeaderStyle(fmt)]

\* no room reserved for the header
MaxBatchHeaderSizeNone(fmt) == 0

\* the reserve taken from the 9/9 header
MaxBatchHeaderSizeOneDigit(fmt) == BatchHeaderBytes(fmt, 9, 9)

\* the 99/99 header measured in characters: len(max_header), the three
\* Chinese characters of the marker counted as one each
MaxBatchHeaderSizeInChars(fmt) == BatchHeaderBytes(fmt, 99, 99) - 6

\* _get_max_batch_header_size: the size of the 99/99 header
MaxBatchHeaderSize(fmt) == BatchHeaderBytes(fmt, 99, 99)

\* len(text.encode("utf-8")): the widths summed, the text halved at each step
\* so that a long batch is summed in few nested steps
RECURSIVE EncodedSize(_)
EncodedSize(text) ==
    IF Len(text) = 0 THEN 0
    ELSE IF Len(text) = 1 THEN text[1].w
    ELSE LET h == Len(text) \div 2
         IN  EncodedSize(SubSeq(text, 1, h)) + EncodedSize(SubSeq(text, h + 1, Len(text)))

\* text.encode("utf-8"): a lead byte (the width of its character) followed by
\* width - 1 continuation bytes (0).
RECURSIVE Encode(_)
Encode(text) ==
    IF Len(text) = 0 THEN <<>>
    ELSE IF Len(text) = 1 THEN <<text[1].w>> \o [k \in 1..(text[1].w - 1) |-> 0]
    ELSE LET h == Len(text) \div 2
         IN  Encode(SubSeq(text, 1, h)) \o Encode(SubSeq(text, h + 1, Len(text)))

IsLeadByte(b) == b # 0

\* bytes.decode("utf-8"): fails on a character that is cut short.  The bytes
\* decode when they start with a lead byte and every lead byte is followed by
\* exactly its continuation bytes; the characters are then the lead bytes.
Decode(bs) ==
    LET ok == /\ Len(bs) > 0 => IsLeadByte(bs[1])
              /\ \A p \in 1..Len(bs) :
                    IsLeadByte(bs[p]) =>
                        /\ p + bs[p] - 1 <= Len(bs)
                        /\ \A k \in 1..(bs[p] - 1) : ~IsLeadByte(bs[p + k])
                        /\ p + bs[p] <= Len(bs) => IsLeadByte(bs[p + bs[p]])
        leads == SelectSeq(bs, IsLeadByte)
    IN  IF ok THEN [ok |-> TRUE, text |-> [k \in 1..Len(leads) |-> Chr(leads[k])]]
        ELSE [ok |-> FALSE, text |-> <<>>]

\* text_bytes[:max_bytes + 1]
SliceToInclusive(bs, n) ==
    IF n + 1 >= 0 THEN SubSeq(bs, 1, IF n + 1 < Len(bs) THEN n + 1 ELSE Len(bs))
    ELSE SubSeq(bs, 1, IF Len(bs) + n + 1 > 0 THEN Len(bs) + n + 1 ELSE 0)

\* text_bytes[:n] with Python's slice semantics (a negative n counts from the end)
SliceTo(bs, n) ==
    IF n >= 0 THEN SubSeq(bs, 1, IF n < Len(bs) THEN n ELSE Len(bs))
    ELSE SubSeq(bs, 1, IF Len(bs) + n > 0 THEN Len(bs) + n ELSE 0)

Min(a, b) == IF a < b THEN a ELSE b

\* at most two bytes given up: range(min(3, len(truncated)))
RECURSIVE TryDecodeThree(_, _)
TryDecodeThree(truncated, i) ==
    IF i >= Min(3, Len(truncated)) THEN <<>>
    ELSE LET d == Decode(SubSeq(truncated, 1, Len(truncated) - i))
         IN  IF d.ok THEN d.text ELSE TryDecodeThree(truncated, i + 1)

\* for i in range(min(4, len(truncated))): try to decode truncated[:len - i]
RECURSIVE TryDecode(_, _)
TryDecode(truncated, i) ==
    IF i >= Min(4, Len(truncated)) THEN <<>>
    ELSE LET d == Decode(SubSeq(truncated, 1, Len(truncated) - i))
         IN  IF d.ok THEN d.text ELSE TryDecode(truncated, i + 1)

\* text[:max_bytes]: characters counted instead of bytes
TruncateByChars(text, n) ==
    IF EncodedSize(text) <= n THEN text
    ELSE SliceTo(text, n)

TruncateToBytes(text, n) ==
    IF EncodedSize(text) <= n THEN text
    ELSE TryDecode(SliceTo(Encode(text), n), 0)

Texts == {[k \in 1..Len(ws) |-> Chr(ws[k])] : ws \in SeqsUpTo(CharWidths, MaxChars)}

\* The batch lists: the odd batches hold one text, the even batches another.
BatchLists ==
    {[i \in 1..n |-> IF i % 2 = 1 THEN a ELSE b] : n \in 0..MaxBatches, a \in Texts, b \in Texts}

InitHb ==
    /\ SplitIdle
    /\ hb_batches \in BatchLists
    /\ hb_format \in HeaderFormats
    /\ hb_max \in HeaderMaxBytes
    /\ hb_pc = "start"
    /\ hb_i = 0
    /\ hb_result = <<>>
    /\ hb_warned = {}
    /\ RerunIdle
    /\ TruncIdle
    /\ SendIdle
    /\ NotifyIdle

\* a single batch numbered too
HeadersNeededForAny(bs) == Len(bs) >= 1

\* "if len(batches) <= 1: return batches": headers are added otherwise
HeadersNeeded(bs) == Len(bs) > 1

HbArgsUnchanged == UNCHANGED <<hb_batches, hb_format, hb_max>>

\* if len(batches) <= 1: return batches
HbReturnInput ==
    /\ hb_pc = "start"
    /\ ~HeadersNeeded(hb_batches)
    /\ hb_result' = hb_batches
    /\ hb_pc' = "done"
    /\ UNCHANGED <<hb_i, hb_warned>>
    /\ HbArgsUnchanged
    /\ UNCHANGED notHbVars

HbEnterLoop ==
    /\ hb_pc = "start"
    /\ HeadersNeeded(hb_batches)
    /\ hb_result' = <<>>
    /\ hb_i' = 1
    /\ hb_pc' = "loop"
    /\ UNCHANGED hb_warned
    /\ HbArgsUnchanged
    /\ UNCHANGED notHbVars

\* header + content truncated as one string
HbIterateTruncatesWhole ==
    /\ hb_pc = "loop"
    /\ hb_i <= Len(hb_batches)
    /\ LET total == Len(hb_batches)
           content == hb_batches[hb_i]
           header == BatchHeader(hb_format, hb_i, total)
           over == EncodedSize(<<header>> \o content) > hb_max
           kept == IF over THEN TruncateToBytes(<<header>> \o content, hb_max)
                   ELSE <<header>> \o content
       IN  /\ hb_warned' = IF over THEN hb_warned \cup {hb_i} ELSE hb_warned
           /\ hb_result' = Append(hb_result, kept)
    /\ hb_i' = hb_i + 1
    /\ UNCHANGED hb_pc
    /\ HbArgsUnchanged
    /\ UNCHANGED notHbVars

\* One iteration of "for i, content in enumerate(batches, 1)".
HbIterate ==
    /\ hb_pc = "loop"
    /\ hb_i <= Len(hb_batches)
    /\ LET total == Len(hb_batches)
           content == hb_batches[hb_i]
           header == BatchHeader(hb_format, hb_i, total)
           header_size == EncodedSize(<<header>>)
           max_content_size == hb_max - header_size
           content_size == EncodedSize(content)
           over == content_size > max_content_size
           kept == IF over THEN TruncateToBytes(content, max_content_size) ELSE content
       IN  /\ hb_warned' = IF over THEN hb_warned \cup {hb_i} ELSE hb_warned
           /\ hb_result' = Append(hb_result, <<header>> \o kept)
    /\ hb_i' = hb_i + 1
    /\ UNCHANGED hb_pc
    /\ HbArgsUnchanged
    /\ UNCHANGED notHbVars

HbReturn ==
    /\ hb_pc = "loop"
    /\ hb_i > Len(hb_batches)
    /\ hb_pc' = "done"
    /\ UNCHANGED <<hb_i, hb_result, hb_warned>>
    /\ HbArgsUnchanged
    /\ UNCHANGED notHbVars

NextHb ==
    \/ HbReturnInput
    \/ HbEnterLoop
    \/ HbIterate
    \/ HbReturn

SpecHb == InitHb /\ [][NextHb]_vars

\* ------------------------------------------------ a second call, same arguments
\* split_content_into_batches called again with the arguments of the first
\* call: the clock (line 136) and CONFIG["REVERSE_CONTENT_ORDER"] (line 580)
\* are read anew.
Rerun ==
    /\ pc = "done"
    /\ run = 1
    /\ run' = 2
    /\ first_batches' = batches
    /\ UNCHANGED <<format_type, max_bytes, mode, update_info, report_data>>
    /\ now' \in Times
    /\ reverse_order' \in BOOLEAN
    /\ pc' = "start"
    /\ sect' = 0 /\ wi' = 0 /\ tj' = 0
    /\ current_batch' = <<BaseHeader'>>
    /\ current_batch_has_content' = FALSE
    /\ batches' = <<>>
    /\ UNCHANGED <<hbVars, truncVars, sendVars, notifyVars>>

NextTwice ==
    \/ Next
    \/ Rerun

SpecTwice == Init /\ [][NextTwice]_vars

\* ------------------------------------------- the two phases of a sender
\* <<dialect given to split_content_into_batches, dialect given to
\* add_batch_headers>> of send_to_feishu, _dingtalk, _wework (markdown and
\* text mode), _telegram, _ntfy, _bark and _slack.
SenderDialects ==
    {<<"feishu", "feishu">>, <<"dingtalk", "dingtalk">>, <<"wework", "wework">>,
     <<"wework", "wework_text">>, <<"telegram", "telegram">>, <<"ntfy", "ntfy">>,
     <<"bark", "bark">>, <<"slack", "slack">>}

\* the destination limits (FEISHU_BATCH_SIZE, MESSAGE_BATCH_SIZE, ...)
BatchSizeChoices == {84, 284}

\* the calls of the senders: without and with an announced update, in either
\* section order
PipeVariants == {<<"daily", FALSE, FALSE, "t1">>, <<"daily", TRUE, TRUE, "t2">>}

\* the reports of the "mixed" profile whose words and sources have the same
\* number of titles
PipeReports ==
    {[stats |-> MkStats("mixed", WordShape(nw, k, FALSE)),
      new_titles |-> MkSources("mixed", SourceShape(ns, k, FALSE)),
      failed_ids |-> MkFailed(nf),
      total_new_count |-> SumSeq(SourceShape(ns, k, FALSE))] :
        nw \in 0..MaxWords, ns \in 0..MaxSources, nf \in 0..MaxFailed,
        k \in 0..MaxTitles}

\* A batch of the partitioner as the string add_batch_headers receives: as
\* many bytes as the fragments have, taken as three-byte characters (the
\* templates and the titles are mostly CJK text) followed by what is left in
\* one-byte characters.
ToText(b) ==
    [k \in 1..(Bytes(b) \div 3) |-> Chr(3)] \o [k \in 1..(Bytes(b) % 3) |-> Chr(1)]

\* batches = split_content_into_batches(..., max_bytes=limit - header_reserve, ...)
InitPipe ==
    /\ \E sd \in SenderDialects :
          /\ format_type = sd[1]
          /\ hb_format = sd[2]
    /\ hb_max \in BatchSizeChoices
    /\ max_bytes = hb_max - MaxBatchHeaderSize(hb_format)
    /\ \E v \in PipeVariants :
          /\ mode = v[1]
          /\ update_info = v[2]
          /\ reverse_order = v[3]
          /\ now = v[4]
    /\ report_data \in PipeReports
    /\ pc = "start"
    /\ sect = 0 /\ wi = 0 /\ tj = 0
    /\ current_batch = <<BaseHeader>>
    /\ current_batch_has_content = FALSE
    /\ batches = <<>>
    /\ hb_pc = "idle"
    /\ hb_batches = <<>>
    /\ hb_i = 0
    /\ hb_result = <<>>
    /\ hb_warned = {}
    /\ RerunIdle
    /\ TruncIdle
    /\ SendIdle
    /\ NotifyIdle

\* batches = add_batch_headers(batches, header_format_type, limit)
PipeAddHeaders ==
    /\ pc = "done"
    /\ hb_pc = "idle"
    /\ hb_batches' = [n \in 1..Len(batches) |-> ToText(batches[n])]
    /\ hb_pc' = "start"
    /\ UNCHANGED <<hb_format, hb_max, hb_i, hb_result, hb_warned>>
    /\ UNCHANGED notHbVars

NextPipe ==
    \/ Next
    \/ PipeAddHeaders
    \/ NextHb

SpecPipe == InitPipe /\ [][NextPipe]_vars

\* ------------------------------------------- the reserve of the senders
\* header_reserve = _get_max_batch_header_size(header_format_type) assumes at
\* most this many batches.
ReserveBatches == 99

\* the lengths of the batch lists given to add_batch_headers: no header, the
\* shortest list with headers, the first two-digit total, the largest total
\* the reserve covers and the first one it does not
BatchCounts == {1, 2, 10, ReserveBatches, ReserveBatches + 1}

\* what the destination limit leaves to the content after the reserve
ReserveRooms == {3, 4}

\* add_batch_headers(batches, header_format_type, limit) on n batches of one
\* text, the limit being the reserve plus the room of the content.
InitReserve ==
    /\ SplitIdle
    /\ hb_format \in HeaderFormats
    /\ \E room \in ReserveRooms : hb_max = MaxBatchHeaderSize(hb_format) + room
    /\ \E n \in BatchCounts, text \in Texts : hb_batches = [i \in 1..n |-> text]
    /\ hb_pc = "start"
    /\ hb_i = 0
    /\ hb_result = <<>>
    /\ hb_warned = {}
    /\ RerunIdle
    /\ TruncIdle
    /\ SendIdle
    /\ NotifyIdle

SpecReserve == InitReserve /\ [][NextHb]_vars

\* ------------------------------------------------------- the send loops
\* The loops of send_to_feishu, _dingtalk, _wework, _telegram, _slack (in
\* order, stopping at the first failure) and of send_to_ntfy, _bark (reversed,
\* going on after a failure), from the batch list add_batch_headers returned.
OrderedSenders == {"feishu", "dingtalk", "wework", "telegram", "slack"}
ReversedSenders == {"ntfy", "bark"}
Senders == OrderedSenders \cup ReversedSenders

\* What a request comes back with: status 200 and a body that reports success;
\* status 200 and a body that reports an error; status 429; status 413; another
\* status; an exception of requests.post or response.json.
Outcomes == {"accepted", "rejected", "rate_limited", "too_large", "bad_status", "exception"}

\* The test a sender makes on the response: send_to_ntfy looks at the status
\* only, the others at the status and the body.
Accepted(sender, outcome) ==
    IF sender = "ntfy" THEN outcome \in {"accepted", "rejected"}
    ELSE outcome = "accepted"

\* The batches by their number in the order produced.
Produced(total) == [i \in 1..total |-> i]

\* the list as it is
NotReversed(s) == s

\* list(reversed(batches))
Reversed(s) == [k \in 1..Len(s) |-> s[Len(s) - k + 1]]

\* The sequence header add_batch_headers put at the front of batch i of the
\* list a sender posts from: none for a single batch, the header i/total of
\* "for i, content in enumerate(batches, 1)" otherwise.
InjectedHeader(fmt, total, i) ==
    IF HeadersNeeded(Produced(total))
    THEN <<BatchHeader(fmt, i, total)>>
    ELSE <<>>

\* requests.post of one batch; title: the number in the ntfy Title header (0:
\* none); retry: the second post after a 429; outcome: what came back
PostEvent(batch, title, retry, outcome) ==
    [ev |-> "post", batch |-> batch, title |-> title, retry |-> retry, outcome |-> outcome]
\* time.sleep after the post of a batch; retry: the wait before the retry
SleepEvent(batch, retry) ==
    [ev |-> "sleep", batch |-> batch, title |-> 0, retry |-> retry, outcome |-> ""]

InitSend ==
    /\ SplitIdle
    /\ HbIdle
    /\ RerunIdle
    /\ TruncIdle
    /\ NotifyIdle
    /\ sn_sender \in Senders
    /\ sn_device_key \in (IF sn_sender = "bark" THEN BOOLEAN ELSE {TRUE})
    /\ sn_total \in 1..MaxSendBatches
    /\ sn_pc = "start"
    /\ sn_idx = 0
    /\ sn_log = <<>>
    /\ sn_success_count = 0
    /\ sn_return = "none"

SendArgsUnchanged == UNCHANGED <<sn_sender, sn_device_key, sn_total>>

\* send_to_bark: "if not device_key: return False", before any batch is built
BarkNoDeviceKey ==
    /\ sn_pc = "start"
    /\ sn_sender = "bark"
    /\ ~sn_device_key
    /\ sn_return' = "False"
    /\ sn_pc' = "done"
    /\ UNCHANGED <<sn_idx, sn_log, sn_success_count>>
    /\ SendArgsUnchanged
    /\ UNCHANGED <<splitVars, hbVars, rerunVars, truncVars, notifyVars>>

SendEnterLoop ==
    /\ sn_pc = "start"
    /\ sn_device_key
    /\ sn_idx' = 1
    /\ sn_pc' = "loop"
    /\ UNCHANGED <<sn_log, sn_success_count, sn_return>>
    /\ SendArgsUnchanged
    /\ UNCHANGED <<splitVars, hbVars, rerunVars, truncVars, notifyVars>>

\* a failed batch is only printed and the loop goes on
SendOrderedBatchGoesOn ==
    /\ sn_pc = "loop"
    /\ sn_sender \in OrderedSenders
    /\ sn_idx <= sn_total
    /\ \E outcome \in Outcomes :
          LET batch_content == Produced(sn_total)[sn_idx]
              posted == Append(sn_log, PostEvent(batch_content, 0, FALSE, outcome))
          IN  sn_log' = IF Accepted(sn_sender, outcome) /\ sn_idx < sn_total
                        THEN Append(posted, SleepEvent(batch_content, FALSE))
                        ELSE posted
    /\ sn_idx' = sn_idx + 1
    /\ UNCHANGED <<sn_pc, sn_return, sn_success_count>>
    /\ SendArgsUnchanged
    /\ UNCHANGED <<splitVars, hbVars, rerunVars, truncVars, notifyVars>>

\* One iteration of "for i, batch_content in enumerate(batches, 1)": the batch
\* is posted; accepted: wait when another batch follows and go on; anything
\* else: return False.
SendOrderedBatch ==
    /\ sn_pc = "loop"
    /\ sn_sender \in OrderedSenders
    /\ sn_idx <= sn_total
    /\ \E outcome \in Outcomes :
          LET batch_content == Produced(sn_total)[sn_idx]
              posted == Append(sn_log, PostEvent(batch_content, 0, FALSE, outcome))
          IN  IF Accepted(sn_sender, outcome)
              THEN /\ sn_log' = IF sn_idx < sn_total
                                THEN Append(posted, SleepEvent(batch_content, FALSE))
                                ELSE posted
                   /\ sn_idx' = sn_idx + 1
                   /\ UNCHANGED <<sn_pc, sn_return>>
              ELSE /\ sn_log' = posted
                   /\ sn_return' = "False"
                   /\ sn_pc' = "done"
                   /\ UNCHANGED sn_idx
    /\ UNCHANGED sn_success_count
    /\ SendArgsUnchanged
    /\ UNCHANGED <<splitVars, hbVars, rerunVars, truncVars, notifyVars>>

SendOrderedReturn ==
    /\ sn_pc = "loop"
    /\ sn_sender \in OrderedSenders
    /\ sn_idx > sn_total
    /\ sn_return' = "True"
    /\ sn_pc' = "done"
    /\ UNCHANGED <<sn_idx, sn_log, sn_success_count>>
    /\ SendArgsUnchanged
    /\ UNCHANGED <<splitVars, hbVars, rerunVars, truncVars, notifyVars>>

\* the Title numbered by the push order idx
SendReversedBatchTitleByPushOrder ==
    /\ sn_pc = "loop"
    /\ sn_sender \in ReversedSenders
    /\ sn_idx <= sn_total
    /\ \E outcome \in Outcomes :
          LET reversed_batches == Reversed(Produced(sn_total))
              batch_content == reversed_batches[sn_idx]
              title == IF sn_sender = "ntfy" /\ sn_total > 1 THEN sn_idx ELSE 0
              posted == Append(sn_log, PostEvent(batch_content, title, FALSE, outcome))
          IN  IF Accepted(sn_sender, outcome)
              THEN /\ sn_log' = IF sn_idx < sn_total
                                THEN Append(posted, SleepEvent(batch_content, FALSE))
                                ELSE posted
                   /\ sn_success_count' = sn_success_count + 1
                   /\ sn_idx' = sn_idx + 1
                   /\ UNCHANGED sn_pc
              ELSE IF outcome = "rate_limited" /\ sn_sender = "ntfy"
              THEN /\ sn_log' = Append(posted, SleepEvent(batch_content, TRUE))
                   /\ sn_pc' = "retry"
                   /\ UNCHANGED <<sn_idx, sn_success_count>>
              ELSE /\ sn_log' = posted
                   /\ sn_idx' = sn_idx + 1
                   /\ UNCHANGED <<sn_pc, sn_success_count>>
    /\ UNCHANGED sn_return
    /\ SendArgsUnchanged
    /\ UNCHANGED <<splitVars, hbVars, rerunVars, truncVars, notifyVars>>

\* One iteration of "for idx, batch_content in enumerate(reversed_batches, 1)".
\* ntfy: a 429 is followed by a wait and one retry; every other failure is
\* only printed.
SendReversedBatch ==
    /\ sn_pc = "loop"
    /\ sn_sender \in ReversedSenders
    /\ sn_idx <= sn_total
    /\ \E outcome \in Outcomes :
          LET reversed_batches == Reversed(Produced(sn_total))
              batch_content == reversed_batches[sn_idx]
              actual_batch_num == sn_total - sn_idx + 1
              title == IF sn_sender = "ntfy" /\ sn_total > 1 THEN actual_batch_num ELSE 0
              posted == Append(sn_log, PostEvent(batch_content, title, FALSE, outcome))
          IN  IF Accepted(sn_sender, outcome)
              THEN /\ sn_log' = IF sn_idx < sn_total
                                THEN Append(posted, SleepEvent(batch_content, FALSE))
                                ELSE posted
                   /\ sn_success_count' = sn_success_count + 1
                   /\ sn_idx' = sn_idx + 1
                   /\ UNCHANGED sn_pc
              ELSE IF outcome = "rate_limited" /\ sn_sender = "ntfy"
              THEN /\ sn_log' = Append(posted, SleepEvent(batch_content, TRUE))
                   /\ sn_pc' = "retry"
                   /\ UNCHANGED <<sn_idx, sn_success_count>>
              ELSE /\ sn_log' = posted
                   /\ sn_idx' = sn_idx + 1
                   /\ UNCHANGED <<sn_pc, sn_success_count>>
    /\ UNCHANGED sn_return
    /\ SendArgsUnchanged
    /\ UNCHANGED <<splitVars, hbVars, rerunVars, truncVars, notifyVars>>

\* an exception of the retry request leaves the function
NtfyRetryUncaught ==
    /\ sn_pc = "retry"
    /\ sn_sender = "ntfy"
    /\ \E outcome \in Outcomes :
          LET batch_content == Reversed(Produced(sn_total))[sn_idx]
              actual_batch_num == sn_total - sn_idx + 1
              title == IF sn_total > 1 THEN actual_batch_num ELSE 0
          IN  /\ sn_log' = Append(sn_log, PostEvent(batch_content, title, TRUE, outcome))
              /\ sn_success_count' =
                    IF Accepted("ntfy", outcome) THEN sn_success_count + 1
                    ELSE sn_success_count
              /\ IF outcome = "exception"
                 THEN sn_pc' = "done" /\ sn_return' = "False" /\ UNCHANGED sn_idx
                 ELSE sn_pc' = "loop" /\ sn_idx' = sn_idx + 1 /\ UNCHANGED sn_return
    /\ SendArgsUnchanged
    /\ UNCHANGED <<splitVars, hbVars, rerunVars, truncVars, notifyVars>>

\* send_to_ntfy: the retry after the wait; its exception is caught by the
\* handlers of the iteration.
NtfyRetry ==
    /\ sn_pc = "retry"
    /\ sn_sender = "ntfy"
    /\ \E outcome \in Outcomes :
          LET batch_content == Reversed(Produced(sn_total))[sn_idx]
              actual_batch_num == sn_total - sn_idx + 1
              title == IF sn_total > 1 THEN actual_batch_num ELSE 0
          IN  /\ sn_log' = Append(sn_log, PostEvent(batch_content, title, TRUE, outcome))
              /\ sn_success_count' =
                    IF Accepted("ntfy", outcome) THEN sn_success_count + 1
                    ELSE sn_success_count
    /\ sn_idx' = sn_idx + 1
    /\ sn_pc' = "loop"
    /\ UNCHANGED sn_return
    /\ SendArgsUnchanged
    /\ UNCHANGED <<splitVars, hbVars, rerunVars, truncVars, notifyVars>>

\* True only when every batch was sent
SendReversedReturnAllOrNothing ==
    /\ sn_pc = "loop"
    /\ sn_sender \in ReversedSenders
    /\ sn_idx > sn_total
    /\ sn_return' = IF sn_success_count = sn_total THEN "True" ELSE "False"
    /\ sn_pc' = "done"
    /\ UNCHANGED <<sn_idx, sn_log, sn_success_count>>
    /\ SendArgsUnchanged
    /\ UNCHANGED <<splitVars, hbVars, rerunVars, truncVars, notifyVars>>

\* True when success_count > 0 (all sent, or some), False otherwise
SendReversedReturn ==
    /\ sn_pc = "loop"
    /\ sn_sender \in ReversedSenders
    /\ sn_idx > sn_total
    /\ sn_return' = IF sn_success_count > 0 THEN "True" ELSE "False"
    /\ sn_pc' = "done"
    /\ UNCHANGED <<sn_idx, sn_log, sn_success_count>>
    /\ SendArgsUnchanged
    /\ UNCHANGED <<splitVars, hbVars, rerunVars, truncVars, notifyVars>>

NextSend ==
    \/ BarkNoDeviceKey
    \/ SendEnterLoop
    \/ SendOrderedBatch
    \/ SendOrderedReturn
    \/ SendReversedBatch
    \/ NtfyRetry
    \/ SendReversedReturn

SpecSend == InitSend /\ [][NextSend]_vars

\* -------------------------------------------------- send_to_notifications
\* A configured value is written as its fields between the ";" separators,
\* stripped: 0 is an empty field, another number a credential, <<>> the empty
\* string. Field k of a list is empty or the credential base + k.
RawLists(base) ==
    UNION {{[k \in 1..n |-> IF k \in S THEN base + k ELSE 0] : S \in SUBSET (1..n)} :
              n \in 0..MaxAccounts}

\* parse_multi_account_config: no list for an empty value or for empty fields
\* only; the fields, empty ones kept as placeholders, otherwise
ParseMultiAccountConfig(config_value) ==
    IF config_value = <<>> THEN <<>>
    ELSE IF \A k \in 1..Len(config_value) : config_value[k] = 0 THEN <<>>
    ELSE config_value

\* validate_paired_configs for the two lists of Telegram, both required:
\* <<valid, count>>
ValidatePairedConfigs(bot_token, chat_id) ==
    IF bot_token = <<>> \/ chat_id = <<>> THEN <<TRUE, 0>>
    ELSE IF Len(bot_token) # Len(chat_id) THEN <<FALSE, 0>>
    ELSE <<TRUE, Len(bot_token)>>

\* limit_accounts: "if len(accounts) > max_count: return accounts[:max_count]"
LimitAccounts(accounts, max_count) ==
    IF Len(accounts) > max_count THEN SliceTo(accounts, max_count) ELSE accounts

\* get_account_at_index(accounts, index, ""), index counted from 0
GetAccountAtIndex(accounts, index) ==
    IF index < Len(accounts) THEN accounts[index + 1] ELSE 0

\* The channels in the order send_to_notifications goes through them.
ChannelOrder ==
    <<"feishu", "dingtalk", "wework", "telegram", "ntfy", "bark", "slack", "email">>
Channels == {ChannelOrder[k] : k \in 1..Len(ChannelOrder)}
SingleListChannels == {"feishu", "dingtalk", "wework", "bark", "slack"}
NextChannel(ch) ==
    LET k == CHOOSE n \in 1..Len(ChannelOrder) : ChannelOrder[n] = ch
    IN  IF k < Len(ChannelOrder) THEN ChannelOrder[k + 1] ELSE "record"

\* The CONFIG entry of a channel with one list.
ConfigKey(ch) ==
    CASE ch = "feishu" -> "FEISHU_WEBHOOK_URL"
      [] ch = "dingtalk" -> "DINGTALK_WEBHOOK_URL"
      [] ch = "wework" -> "WEWORK_WEBHOOK_URL"
      [] ch = "bark" -> "BARK_URL"
      [] ch = "slack" -> "SLACK_WEBHOOK_URL"

\* Nothing configured, the push window off.
NoChannels ==
    [ENABLED |-> FALSE, ONCE_PER_DAY |-> FALSE, MAX_ACCOUNTS_PER_CHANNEL |-> 3,
     FEISHU_WEBHOOK_URL |-> <<>>, DINGTALK_WEBHOOK_URL |-> <<>>,
     WEWORK_WEBHOOK_URL |-> <<>>, TELEGRAM_BOT_TOKEN |-> <<>>,
     TELEGRAM_CHAT_ID |-> <<>>, NTFY_SERVER_URL |-> FALSE, NTFY_TOPIC |-> <<>>,
     NTFY_TOKEN |-> <<>>, BARK_URL |-> <<>>, SLACK_WEBHOOK_URL |-> <<>>,
     EMAIL |-> FALSE]

\* MAX_ACCOUNTS_PER_CHANNEL: any integer the environment or the file gives
MaxCounts == {-1, 0, 1, 2}

\* The configurations of the accounts: one channel configured, every list of
\* up to MaxAccounts fields, every limit.
AccountConfigs ==
    {[NoChannels EXCEPT ![ConfigKey(ch)] = l, !.MAX_ACCOUNTS_PER_CHANNEL = m] :
        ch \in SingleListChannels, l \in RawLists(10), m \in MaxCounts}
    \cup {[NoChannels EXCEPT !.TELEGRAM_BOT_TOKEN = a, !.TELEGRAM_CHAT_ID = b,
                             !.MAX_ACCOUNTS_PER_CHANNEL = m] :
        a \in RawLists(10), b \in RawLists(20), m \in MaxCounts}
    \cup {[NoChannels EXCEPT !.NTFY_SERVER_URL = TRUE, !.NTFY_TOPIC = a, !.NTFY_TOKEN = b,
                             !.MAX_ACCOUNTS_PER_CHANNEL = m] :
        a \in RawLists(10), b \in RawLists(20), m \in MaxCounts}
    \cup {[NoChannels EXCEPT !.NTFY_TOPIC = <<11>>]}

\* The configurations of the push window: the window on, once-per-day on or
\* off, and no channel, one account, or two accounts and the mail.
WindowConfigs ==
    {[c EXCEPT !.ENABLED = TRUE, !.ONCE_PER_DAY = once] :
        c \in {NoChannels,
               [NoChannels EXCEPT !.SLACK_WEBHOOK_URL = <<11>>],
               [NoChannels EXCEPT !.FEISHU_WEBHOOK_URL = <<11, 12>>, !.EMAIL = TRUE]},
        once \in BOOLEAN}

\* One call of a send_to_* function: the channel, the index i of the account,
\* its credentials and the value the function returned.
Call(ch, i, a, b, ok) == [channel |-> ch, i |-> i, a |-> a, b |-> b, ok |-> ok]
WasMade(c) == c.channel # ""
NoCall == Call("", 0, 0, 0, FALSE)

\* results[ch] = value
WithResult(results, ch, value) ==
    [c \in (DOMAIN results) \cup {ch} |-> IF c = ch THEN value ELSE results[c]]

\* any(results.values())
AnyResult(results) == \E c \in DOMAIN results : results[c]

\* PushRecordManager: the answers of is_in_time_range and has_pushed_today and
\* the effect of record_push on the record of today.
IsInTimeRange == nt_in_range
HasPushedToday == nt_pushed
RecordPush == nt_pushed' = TRUE

InitNotify ==
    /\ SplitIdle
    /\ HbIdle
    /\ RerunIdle
    /\ TruncIdle
    /\ SendIdle
    /\ nt_config \in AccountConfigs \cup WindowConfigs
    /\ nt_in_range \in (IF nt_config.ENABLED THEN BOOLEAN ELSE {TRUE})
    /\ nt_pushed = FALSE
    /\ nt_pc = "gate"
    /\ nt_prepared = FALSE
    /\ nt_sent = <<>>
    /\ nt_results = <<>>
    /\ nt_recorded = FALSE
    /\ nt_history = <<>>

NotNotifyVars == <<splitVars, hbVars, rerunVars, truncVars, sendVars>>

\* the gate looks at the time only
NotifyGateWindowOnly ==
    /\ nt_pc = "gate"
    /\ nt_pc' = IF nt_config.ENABLED /\ ~IsInTimeRange THEN "done" ELSE "prepare"
    /\ UNCHANGED <<nt_config, nt_in_range, nt_pushed, nt_prepared, nt_sent, nt_results,
                   nt_recorded, nt_history>>
    /\ UNCHANGED NotNotifyVars

\* "if CONFIG["PUSH_WINDOW"]["ENABLED"]": outside the window, or once a day and
\* pushed today: return results; otherwise go on to prepare_report_data.
NotifyGate ==
    /\ nt_pc = "gate"
    /\ nt_pc' = IF nt_config.ENABLED
                   /\ (~IsInTimeRange \/ (nt_config.ONCE_PER_DAY /\ HasPushedToday))
                THEN "done"
                ELSE "prepare"
    /\ UNCHANGED <<nt_config, nt_in_range, nt_pushed, nt_prepared, nt_sent, nt_results,
                   nt_recorded, nt_history>>
    /\ UNCHANGED NotNotifyVars

\* report_data = prepare_report_data(...)
NotifyPrepare ==
    /\ nt_pc = "prepare"
    /\ nt_prepared' = TRUE
    /\ nt_pc' = ChannelOrder[1]
    /\ UNCHANGED <<nt_config, nt_in_range, nt_pushed, nt_sent, nt_results, nt_recorded,
                   nt_history>>
    /\ UNCHANGED NotNotifyVars

\* The calls of one channel: account i of the limited list is called when its
\* fields are not empty, with a result the call decides.
ChannelCalls(ch, a, b, oks) ==
    SelectSeq([i \in 1..Len(a) |->
                  IF i \in DOMAIN oks THEN Call(ch, i, a[i], b[i], oks[i]) ELSE NoCall],
              WasMade)

\* The effect of a channel whose block is entered with the lists a and b:
\* every account with both fields set is called, results[ch] = any(...).
ChannelSends(ch, a, b, needs_b) ==
    LET called == {i \in 1..Len(a) : a[i] # 0 /\ (needs_b => b[i] # 0)}
    IN  \E oks \in [called -> BOOLEAN] :
           /\ nt_sent' = nt_sent \o ChannelCalls(ch, a, b, oks)
           /\ nt_results' = WithResult(nt_results, ch, \E i \in called : oks[i])

ChannelSkipped == UNCHANGED <<nt_sent, nt_results>>

NoSecond(a) == [i \in 1..Len(a) |-> 0]

\* feishu, dingtalk, wework, bark, slack: "if urls:", limit_accounts, the loop
\* "for i, url in enumerate(urls): if url:".
NotifySingleList ==
    /\ nt_pc \in SingleListChannels
    /\ LET urls == ParseMultiAccountConfig(nt_config[ConfigKey(nt_pc)])
           limited == LimitAccounts(urls, nt_config.MAX_ACCOUNTS_PER_CHANNEL)
       IN  IF urls # <<>>
           THEN ChannelSends(nt_pc, limited, NoSecond(limited), FALSE)
           ELSE ChannelSkipped
    /\ nt_pc' = NextChannel(nt_pc)
    /\ UNCHANGED <<nt_config, nt_in_range, nt_pushed, nt_prepared, nt_recorded, nt_history>>
    /\ UNCHANGED NotNotifyVars

\* Telegram: both lists configured, validate_paired_configs, limit_accounts
\* on the tokens, the chat ids cut to the same length.
NotifyTelegram ==
    /\ nt_pc = "telegram"
    /\ LET telegram_tokens == ParseMultiAccountConfig(nt_config.TELEGRAM_BOT_TOKEN)
           telegram_chat_ids == ParseMultiAccountConfig(nt_config.TELEGRAM_CHAT_ID)
           v == ValidatePairedConfigs(telegram_tokens, telegram_chat_ids)
           tokens == LimitAccounts(telegram_tokens, nt_config.MAX_ACCOUNTS_PER_CHANNEL)
           chat_ids == SliceTo(telegram_chat_ids, Len(tokens))
       IN  IF telegram_tokens # <<>> /\ telegram_chat_ids # <<>> /\ v[1] /\ v[2] > 0
           THEN ChannelSends("telegram", tokens, chat_ids, TRUE)
           ELSE ChannelSkipped
    /\ nt_pc' = NextChannel(nt_pc)
    /\ UNCHANGED <<nt_config, nt_in_range, nt_pushed, nt_prepared, nt_recorded, nt_history>>
    /\ UNCHANGED NotNotifyVars

\* the numbers of topics and tokens are not compared
NotifyNtfyNoLengthCheck ==
    /\ nt_pc = "ntfy"
    /\ LET ntfy_topics == ParseMultiAccountConfig(nt_config.NTFY_TOPIC)
           ntfy_tokens == ParseMultiAccountConfig(nt_config.NTFY_TOKEN)
           topics == LimitAccounts(ntfy_topics, nt_config.MAX_ACCOUNTS_PER_CHANNEL)
           cut == IF ntfy_tokens # <<>> THEN SliceTo(ntfy_tokens, Len(topics)) ELSE ntfy_tokens
           tokens == [i \in 1..Len(topics) |->
                         IF cut # <<>> THEN GetAccountAtIndex(cut, i - 1) ELSE 0]
       IN  IF nt_config.NTFY_SERVER_URL /\ ntfy_topics # <<>>
           THEN ChannelSends("ntfy", topics, tokens, FALSE)
           ELSE ChannelSkipped
    /\ nt_pc' = NextChannel(nt_pc)
    /\ UNCHANGED <<nt_config, nt_in_range, nt_pushed, nt_prepared, nt_recorded, nt_history>>
    /\ UNCHANGED NotNotifyVars

\* ntfy: server and topics configured; tokens, when configured, as many as the
\* topics; limit_accounts on the topics, the tokens cut to the same length.
NotifyNtfy ==
    /\ nt_pc = "ntfy"
    /\ LET ntfy_topics == ParseMultiAccountConfig(nt_config.NTFY_TOPIC)
           ntfy_tokens == ParseMultiAccountConfig(nt_config.NTFY_TOKEN)
           topics == LimitAccounts(ntfy_topics, nt_config.MAX_ACCOUNTS_PER_CHANNEL)
           cut == IF ntfy_tokens # <<>> THEN SliceTo(ntfy_tokens, Len(topics)) ELSE ntfy_tokens
           tokens == [i \in 1..Len(topics) |->
                         IF cut # <<>> THEN GetAccountAtIndex(cut, i - 1) ELSE 0]
       IN  IF nt_config.NTFY_SERVER_URL /\ ntfy_topics # <<>>
              /\ ~(ntfy_tokens # <<>> /\ Len(ntfy_tokens) # Len(ntfy_topics))
           THEN ChannelSends("ntfy", topics, tokens, FALSE)
           ELSE ChannelSkipped
    /\ nt_pc' = NextChannel(nt_pc)
    /\ UNCHANGED <<nt_config, nt_in_range, nt_pushed, nt_prepared, nt_recorded, nt_history>>
    /\ UNCHANGED NotNotifyVars

\* "if email_from and email_password and email_to": results["email"] =
\* send_to_email(...)
NotifyEmail ==
    /\ nt_pc = "email"
    /\ IF nt_config.EMAIL
       THEN \E ok \in BOOLEAN :
               /\ nt_sent' = Append(nt_sent, Call("email", 1, 0, 0, ok))
               /\ nt_results' = WithResult(nt_results, "email", ok)
       ELSE ChannelSkipped
    /\ nt_pc' = NextChannel(nt_pc)
    /\ UNCHANGED <<nt_config, nt_in_range, nt_pushed, nt_prepared, nt_recorded, nt_history>>
    /\ UNCHANGED NotNotifyVars

\* a run that got an answer from any channel is recorded
NotifyRecordAnyAnswer ==
    /\ nt_pc = "record"
    /\ IF nt_config.ENABLED /\ nt_config.ONCE_PER_DAY /\ DOMAIN nt_results # {}
       THEN RecordPush /\ nt_recorded' = TRUE
       ELSE UNCHANGED <<nt_pushed, nt_recorded>>
    /\ nt_pc' = "done"
    /\ UNCHANGED <<nt_config, nt_in_range, nt_prepared, nt_sent, nt_results, nt_history>>
    /\ UNCHANGED NotNotifyVars

\* The end of send_to_notifications: record_push when the window is on, once
\* a day is set and any(results.values()); return results.
NotifyRecord ==
    /\ nt_pc = "record"
    /\ IF nt_config.ENABLED /\ nt_config.ONCE_PER_DAY /\ AnyResult(nt_results)
       THEN RecordPush /\ nt_recorded' = TRUE
       ELSE UNCHANGED <<nt_pushed, nt_recorded>>
    /\ nt_pc' = "done"
    /\ UNCHANGED <<nt_config, nt_in_range, nt_prepared, nt_sent, nt_results, nt_history>>
    /\ UNCHANGED NotNotifyVars

\* What a finished run leaves for the later runs of the day to be compared with.
RunSummary == [sent |-> nt_sent, results |-> nt_results, recorded |-> nt_recorded]

\* The next call of send_to_notifications on the same day, under the same
\* CONFIG. With the window off a call neither reads nor writes the record, so
\* one call stands for all.
NotifyAgain ==
    /\ nt_pc = "done"
    /\ nt_config.ENABLED
    /\ Len(nt_history) + 1 < MaxRuns
    /\ nt_history' = Append(nt_history, RunSummary)
    /\ nt_in_range' \in BOOLEAN
    /\ nt_pc' = "gate"
    /\ nt_prepared' = FALSE
    /\ nt_sent' = <<>>
    /\ nt_results' = <<>>
    /\ nt_recorded' = FALSE
    /\ UNCHANGED <<nt_config, nt_pushed>>
    /\ UNCHANGED NotNotifyVars

NextNotify ==
    \/ NotifyGate
    \/ NotifyPrepare
    \/ NotifySingleList
    \/ NotifyTelegram
    \/ NotifyNtfy
    \/ NotifyEmail
    \/ NotifyRecord
    \/ NotifyAgain

SpecNotify == InitNotify /\ [][NextNotify]_vars

\* ------------------------------------------------------ _truncate_to_bytes
InitTrunc ==
    /\ SplitIdle
    /\ HbIdle
    /\ RerunIdle
    /\ SendIdle
    /\ NotifyIdle
    /\ tr_text \in Texts
    /\ tr_n \in TruncSizes
    /\ tr_pc = "start"
    /\ tr_out = <<>>

\* One call of _truncate_to_bytes(text, max_bytes).
TruncCall ==
    /\ tr_pc = "start"
    /\ tr_out' = TruncateToBytes(tr_text, tr_n)
    /\ tr_pc' = "done"
    /\ UNCHANGED <<tr_text, tr_n>>
    /\ UNCHANGED <<splitVars, hbVars, rerunVars, sendVars, notifyVars>>

NextTrunc == TruncCall

SpecTrunc == InitTrunc /\ [][NextTrunc]_vars

\* ------------------------------------------------------------ properties
Done == pc = "done"

\* The batches in the order returned, concatenated.
Flat == Flatten(batches)

RECURSIVE CountTok(_, _)
CountTok(s, t) ==
    IF s = <<>> THEN 0
    ELSE (IF Head(s) = t THEN 1 ELSE 0) + CountTok(Tail(s), t)

\* The number of places where u occurs in s as a contiguous run.
CountRun(s, u) ==
    Cardinality({p \in 1..(Len(s) - Len(u) + 1) : \A k \in 1..Len(u) : s[p + k - 1] = u[k]})

IsPrefix(a, b) == Len(a) <= Len(b) /\ SubSeq(b, 1, Len(a)) = a

\* The candidate units of the report: atomic units (banner + first title
\* line), remaining title lines and failed-id lines.
WordIdx == 1..Len(report_data.stats)
SourceIdx == 1..Len(report_data.new_titles)
FailedIdx == 1..Len(report_data.failed_ids)
RestOfWord(i) == 2..Len(report_data.stats[i].titles)
RestOfSource(i) == 2..Len(report_data.new_titles[i].titles)

Units ==
    {WordWithFirstNews(i) : i \in WordIdx}
        \cup UNION {{<<StatsLine(i, j)>> : j \in RestOfWord(i)} : i \in WordIdx}
        \cup {SourceWithFirstNews(i) : i \in SourceIdx}
        \cup UNION {{<<NewLine(i, j)>> : j \in RestOfSource(i)} : i \in SourceIdx}
        \cup {<<FailedLine(i)>> : i \in FailedIdx}

\* The units a batch holds.
UnitsIn(b) == {u \in Units : CountRun(b, u) > 0}

IsSentinelBatch(b) == \E p \in 1..Len(b) : b[p].k = "simple_content"

\* b without the untested newlines of the new-titles section
RECURSIVE WithoutNewlines(_)
WithoutNewlines(b) ==
    IF b = <<>> THEN <<>>
    ELSE (IF Head(b).k = "newline" THEN <<>> ELSE <<Head(b)>>) \o WithoutNewlines(Tail(b))

BatchSet == {batches[n] : n \in 1..Len(batches)}

\* C1 as stated, taken for the batches that hold at least one unit of a report
\* with content: such a batch is within max_bytes, unless it holds a single unit
\* that alone exceeds max_bytes.
C1_WithinBudgetOrOversizeUnit ==
    Done => \A b \in BatchSet :
        \/ Bytes(b) <= max_bytes
        \/ IsSentinelBatch(b)
        \/ LET us == UnitsIn(b)
           IN  \/ us = {}
               \/ /\ Cardinality(us) = 1
                  /\ \A u \in us : Bytes(u) > max_bytes

\* C1 (amended): for a report with content, every returned batch that holds two
\* or more units is within max_bytes; a batch over max_bytes holds at most one
\* unit and is a freshly seeded batch (base header, re-entry prefix, that unit,
\* then at most the untested newline) whose prefix + unit + footer already
\* reaches max_bytes, whether or not the unit alone exceeds it.
C1_WithinBudgetUnlessFreshSeed ==
    Done => \A b \in BatchSet :
        \/ Bytes(b) <= max_bytes
        \/ IsSentinelBatch(b)
        \/ /\ Cardinality(UnitsIn(b)) <= 1
           /\ Bytes(WithoutNewlines(b)) >= max_bytes
           /\ b[1] = BaseHeader
           /\ CountTok(b, BaseHeader) = 1

C1_Witness ==
    /\ Done
    /\ \E b \in BatchSet : Cardinality(UnitsIn(b)) >= 2 /\ Bytes(b) <= max_bytes
    /\ \E b \in BatchSet :
          /\ Bytes(b) > max_bytes
          /\ Cardinality(UnitsIn(b)) = 1
          /\ \A u \in UnitsIn(b) : Bytes(u) <= max_bytes

FirstLineFollowsBanner(b) ==
    \A p \in 1..Len(b) :
        /\ (b[p].k = "news_line" /\ b[p].j = 1) => (p > 1 /\ b[p - 1] = WordHeader(b[p].i))
        /\ (b[p].k = "new_line" /\ b[p].j = 1) => (p > 1 /\ b[p - 1] = SourceHeader(b[p].i))

\* C2: in every returned batch, and in the batch being filled at every step
\* (so no flush separates the two), the first title line of a word directly
\* follows that word's banner, and the first title line of a source group
\* directly follows that group's banner.
C2_BannerAndFirstLineTogether ==
    /\ Done => \A b \in BatchSet : FirstLineFollowsBanner(b)
    /\ FirstLineFollowsBanner(current_batch)

C2_Witness ==
    /\ Done
    /\ Len(batches) >= 2
    /\ \E n \in 2..Len(batches), i \in WordIdx :
          /\ Len(WordWithFirstNews(i)) = 2
          /\ CountRun(batches[n], WordWithFirstNews(i)) = 1
          /\ UnitsIn(batches[n - 1]) # {}

\* C3: when the partitioner returns, every unit of the report occurs exactly
\* once in the concatenated batches.
C3_EveryUnitExactlyOnce ==
    (Done /\ ~EmptyReport) => \A u \in Units : CountRun(Flat, u) = 1

C3_Witness ==
    /\ Done
    /\ Len(batches) >= 3
    /\ Cardinality(Units) >= 4
    /\ \E i \in WordIdx : CountTok(Flat, WordHeader(i)) >= 2

\* C4: a unit larger than max_bytes is in exactly one returned batch, whole, and
\* that batch is over max_bytes.
C4_OversizeUnitCommittedWhole ==
    (Done /\ ~EmptyReport) =>
        \A u \in Units :
            Bytes(u) > max_bytes =>
                /\ Cardinality({n \in 1..Len(batches) : CountRun(batches[n], u) = 1}) = 1
                /\ \A n \in 1..Len(batches) :
                      CountRun(batches[n], u) = 1 =>
                          Bytes(batches[n]) >= Bytes(u) + Bytes(<<BaseFooter>>)

C4_Witness ==
    /\ Done
    /\ \E u \in Units :
          /\ Bytes(u) > max_bytes
          /\ \E n \in 1..Len(batches) :
                CountRun(batches[n], u) = 1 /\ Bytes(batches[n]) > max_bytes

OneOversizeWordOnly ==
    /\ Len(report_data.stats) = 1
    /\ Len(report_data.stats[1].titles) = 1
    /\ Len(report_data.new_titles) = 0
    /\ Len(report_data.failed_ids) = 0
    /\ Bytes(WordWithFirstNews(1)) > max_bytes

\* C5: a report whose only content is one word (with one title) whose banner +
\* first title line exceeds max_bytes is returned as a single batch.
C5_SingleOversizeBatch == (Done /\ OneOversizeWordOnly) => Len(batches) = 1

\* C6: every returned batch ends with the footer and holds it once; the batch
\* being filled holds no footer.
C6_FooterOncePerBatch ==
    /\ Done => \A b \in BatchSet : b[Len(b)] = BaseFooter /\ CountTok(b, BaseFooter) = 1
    /\ CountTok(current_batch, BaseFooter) = 0

C6_Witness ==
    /\ Done
    /\ Len(batches) >= 3
    /\ ~EmptyReport

\* C7: an empty report gives exactly one batch, base header + the sentence of
\* the mode + footer, whatever its size; a report with content never holds the
\* sentence.
C7_SentinelBatch ==
    /\ (Done /\ EmptyReport) =>
          batches = << <<BaseHeader,
                         Tok("simple_content", 0, 0,
                             CASE mode = "incremental" -> "incremental"
                               [] mode = "current" -> "current"
                               [] OTHER -> "default"),
                         BaseFooter>> >>
    /\ ~EmptyReport =>
          /\ \A b \in BatchSet : ~IsSentinelBatch(b)
          /\ ~IsSentinelBatch(current_batch)

C7_Witness ==
    /\ Done
    /\ EmptyReport
    /\ mode = "current"
    /\ Len(batches) = 1
    /\ Bytes(batches[1]) > max_bytes

StatsItem(t) == t.k \in {"word_header", "news_line"}
NewItem(t) == t.k \in {"source_header", "new_line"}

\* The position of the first occurrence of t in s, 0 when there is none.
FirstPos(s, t) ==
    IF CountTok(s, t) = 0 THEN 0
    ELSE CHOOSE p \in 1..Len(s) : s[p] = t /\ \A q \in 1..(p - 1) : s[q] # t

\* C8: in the concatenated batches the section that the order flag puts first
\* comes first (items and first banners), and failed-id lines follow all
\* stats and new-titles content.
C8_SectionOrder ==
    Done =>
        LET f == Flat
            ps == {p \in 1..Len(f) : StatsItem(f[p])}
            pn == {p \in 1..Len(f) : NewItem(f[p])}
            pf == {p \in 1..Len(f) : f[p].k = "failed_line"}
            sh == FirstPos(f, StatsHeader)
            nh == FirstPos(f, NewHeader)
        IN  /\ reverse_order =>
                /\ \A p \in pn, q \in ps : p < q
                /\ (sh > 0 /\ nh > 0) => nh < sh
            /\ ~reverse_order =>
                /\ \A p \in ps, q \in pn : p < q
                /\ (sh > 0 /\ nh > 0) => sh < nh
            /\ \A p \in ps \cup pn, q \in pf : p < q

C8_Witness ==
    /\ Done
    /\ reverse_order
    /\ Len(batches) >= 2
    /\ FirstPos(Flat, NewHeader) > 0
    /\ FirstPos(Flat, NewHeader) < FirstPos(Flat, StatsHeader)
    /\ \E p \in 1..Len(Flat) : Flat[p].k = "failed_line"

HasHeader(b) == \E p \in 1..Len(b) : b[p].total_batches # 0

\* C9: headers are injected iff the input has more than one batch; the output
\* then has as many batches, in the same order, and batch number i carries the
\* marker i/total with total the input length.
C9_HeadersIffSeveralBatches ==
    hb_pc = "done" =>
        /\ Len(hb_result) = Len(hb_batches)
        /\ \A n \in 1..Len(hb_result) : HasHeader(hb_result[n]) <=> Len(hb_batches) > 1
        /\ Len(hb_batches) > 1 =>
              \A n \in 1..Len(hb_result) :
                  /\ hb_result[n][1].batch_num = n
                  /\ hb_result[n][1].total_batches = Len(hb_batches)
                  /\ hb_result[n][1].style = BatchHeaderStyle(hb_format)
                  /\ ~HasHeader(Tail(hb_result[n]))
                  /\ IsPrefix(Tail(hb_result[n]), hb_batches[n])

C9_Witness ==
    /\ hb_pc = "done"
    /\ Len(hb_batches) >= 2
    /\ hb_batches[1] # hb_batches[2]
    /\ hb_warned = {}

\* C10: given 0 or 1 batches, add_batch_headers returns its input as it is,
\* without a header, a truncation or a warning, whatever the size of the batch.
C10_ShortListUnchanged ==
    (hb_pc = "done" /\ Len(hb_batches) <= 1) => (hb_result = hb_batches /\ hb_warned = {})

C10_Witness ==
    /\ hb_pc = "done"
    /\ Len(hb_batches) = 1
    /\ EncodedSize(hb_batches[1]) > hb_max
    /\ hb_result = hb_batches

C14_SameArgumentsSameBatches ==
    (pc = "done" /\ run = 2) => batches = first_batches

TitleLines ==
    UNION {{StatsLine(i, j) : j \in 1..Len(report_data.stats[i].titles)} : i \in WordIdx}
        \cup UNION {{NewLine(i, j) : j \in 1..Len(report_data.new_titles[i].titles)} :
                       i \in SourceIdx}

\* C15: for a dialect the partitioner does not know, the base header, the
\* footer and every section and item banner are empty, the run always goes on
\* to its end, and every title line and failed-id line is in the returned
\* batches, once.
C15_UnknownDialectUnbannered ==
    format_type \notin {"wework", "bark", "telegram", "ntfy", "feishu", "dingtalk", "slack"} =>
        /\ \A t \in {BaseHeader, BaseFooter, StatsHeader, NewHeader, FailedHeader} :
              TokBytes(t) = 0
        /\ \A i \in WordIdx : TokBytes(WordHeader(i)) = 0 /\ TokBytes(Separator(i)) = 0
        /\ \A i \in SourceIdx : TokBytes(SourceHeader(i)) = 0
        /\ pc # "done" => ENABLED Next
        /\ (Done /\ ~EmptyReport) =>
              /\ \A t \in TitleLines : CountTok(Flat, t) = 1 /\ TokBytes(t) > 0
              /\ \A i \in FailedIdx :
                    CountTok(Flat, FailedLine(i)) = 1 /\ TokBytes(FailedLine(i)) > 0

C15_Witness ==
    /\ Done
    /\ format_type = "unknown"
    /\ Len(batches) >= 2
    /\ Cardinality(TitleLines) >= 3
    /\ FailedIdx # {}
    /\ \E b \in BatchSet : Cardinality(UnitsIn(b)) >= 2

IsPost(e) == e.ev = "post"
IsFirstPost(e) == e.ev = "post" /\ ~e.retry
Posts == SelectSeq(sn_log, IsPost)
FirstPosts == SelectSeq(sn_log, IsFirstPost)

\* C16: leaving the retries of send_to_ntfy aside, the batches are posted in
\* the order produced (1, 2, ...) by the feishu, dingtalk, wework, telegram and
\* slack senders and in the reverse order (total, ..., 1) by the ntfy and bark
\* senders, none skipped and none twice; a retry posts the batch just posted.
C16_SendOrder ==
    /\ \A k \in 1..Len(FirstPosts) :
          FirstPosts[k].batch =
              IF sn_sender \in {"ntfy", "bark"} THEN sn_total - k + 1 ELSE k
    /\ Len(FirstPosts) <= sn_total
    /\ \A k \in 1..Len(Posts) :
          Posts[k].retry =>
              /\ sn_sender = "ntfy"
              /\ k > 1
              /\ ~Posts[k - 1].retry
              /\ Posts[k - 1].batch = Posts[k].batch

C16_Witness ==
    /\ sn_pc = "done"
    /\ sn_sender = "ntfy"
    /\ sn_total >= 3
    /\ Len(FirstPosts) = sn_total
    /\ Len(Posts) = sn_total + 1
    /\ sn_success_count = 1

HoldsStatsItem(b) == \E p \in 1..Len(b) : StatsItem(b[p])

\* A remaining title line (j >= 2) that does not follow line j - 1 in b.
StartsAfterOverflow(b, p) ==
    /\ b[p].k = "news_line"
    /\ b[p].j >= 2
    /\ ~(p > 1 /\ b[p - 1] = StatsLine(b[p].i, b[p].j - 1))

\* C17 as stated, for the batches that hold a unit: the stats banner is in
\* exactly one batch of the output.
C17_StatsBannerInOneBatch ==
    (Done /\ Len(report_data.stats) > 0) =>
        Cardinality({n \in 1..Len(batches) :
                        /\ CountTok(batches[n], StatsHeader) > 0
                        /\ UnitsIn(batches[n]) # {}}) = 1

\* C17 (amended): when a remaining title line of a word overflows, the new
\* batch starts with base header + stats banner + that word's banner + the
\* line; the stats banner is once in every returned batch that holds a stats
\* item, before its first stats item.
C17_StatsBannerInEveryStatsBatch ==
    Done => \A b \in BatchSet :
        /\ HoldsStatsItem(b) =>
              /\ CountTok(b, StatsHeader) = 1
              /\ \A p \in 1..Len(b) : StatsItem(b[p]) => FirstPos(b, StatsHeader) < p
        /\ \A p \in 1..Len(b) :
              StartsAfterOverflow(b, p) =>
                  /\ p = 4
                  /\ SubSeq(b, 1, 3) = <<BaseHeader, StatsHeader, WordHeader(b[p].i)>>

C17_Witness ==
    /\ Done
    /\ \E n \in 2..Len(batches) :
          /\ Len(batches[n]) >= 4
          /\ StartsAfterOverflow(batches[n], 4)
          /\ CountTok(batches[n], StatsHeader) = 1
          /\ CountTok(batches[n - 1], StatsHeader) = 1
          /\ CountTok(batches[n - 1], WordHeader(batches[n][4].i)) = 1

\* C18: no step of split_content_into_batches changes the report data it was
\* given: every stat, source group and title entry, the is_new flags included,
\* keeps its value; only the private copies of the new titles are cleared.
C18_ReportDataUnchanged == [][report_data' = report_data]_vars

C18_Witness ==
    /\ Done
    /\ \E i \in 1..Len(report_data.new_titles) :
          \E j \in 1..Len(report_data.new_titles[i].titles) :
              /\ report_data.new_titles[i].titles[j].is_new
              /\ CountTok(Flat, NewLine(i, j)) = 1

\* The unit that the step enabled at the current position tests, <<>> when
\* the step tests none.
Tested ==
    CASE pc = "section" /\ sect <= 3 ->
            IF Len(report_data[Section]) = 0 THEN <<>>
            ELSE IF Section = "stats" THEN <<StatsHeader>>
            ELSE IF Section = "new_titles" THEN <<NewHeader>>
            ELSE <<FailedHeader>>
      [] pc = "word" -> WordWithFirstNews(wi)
      [] pc = "title" -> <<StatsLine(wi, tj)>>
      [] pc = "source" -> SourceWithFirstNews(wi)
      [] pc = "new_title" -> <<NewLine(wi, tj)>>
      [] pc = "failed" -> <<FailedLine(wi)>>
      [] OTHER -> <<>>

TestedSum == Bytes(current_batch \o Tested) + Bytes(<<BaseFooter>>)

IsBanner(t) ==
    t.k \in {"base_header", "stats_header", "new_header", "failed_header",
             "word_header", "source_header"}

\* s is a run of banners that starts with the base header, followed by unit.
StartsNewBatch(s, unit) ==
    LET n == Len(s) - Len(unit)
    IN  /\ n >= 1
        /\ s[1] = BaseHeader
        /\ \A p \in 1..n : IsBanner(s[p])
        /\ SubSeq(s, n + 1, Len(s)) = unit

\* C19: every step that tests a unit (a section banner, a word or source unit,
\* a remaining title line, a failed-id line) appends it to the current batch
\* exactly when size(current + unit) + size(footer) < max_bytes; when the sum
\* is equal to or greater than max_bytes the current batch is flushed with the
\* footer (if it has content) and the unit starts a new batch.  The stats
\* banner decides the same way.
C19_FitTestStrictWithFooter ==
    [][Tested # <<>> =>
          IF TestedSum < max_bytes
          THEN /\ current_batch' = current_batch \o Tested
               /\ batches' = batches
          ELSE /\ batches' = IF current_batch_has_content
                             THEN Append(batches, current_batch \o <<BaseFooter>>)
                             ELSE batches
               /\ StartsNewBatch(current_batch', Tested)]_vars

\* The stats banner was tested with a sum equal to max_bytes, after the
\* new-titles section, and started a new batch.
C19_Witness ==
    /\ Done
    /\ \E n \in 1..(Len(batches) - 1) :
          /\ Len(batches[n + 1]) >= 2
          /\ batches[n + 1][2] = StatsHeader
          /\ CountTok(batches[n], StatsHeader) = 0
          /\ \E p \in 1..Len(batches[n]) : NewItem(batches[n][p])
          /\ Bytes(batches[n]) + Bytes(<<StatsHeader>>) = max_bytes

\* t occurs in b before position p.
Before(b, t, p) == \E q \in 1..(p - 1) : b[q] = t

\* C20: every returned batch starts with the base header; in it each title
\* line of the stats section comes after the stats banner and the banner of
\* its own word, each title line of the new-titles section after the
\* new-titles banner and the banner of its own source group, and each
\* failed-id line after the failure banner.
C20_BannersPrecedeLines ==
    Done => \A b \in BatchSet :
        /\ b[1] = BaseHeader
        /\ \A p \in 1..Len(b) :
              /\ b[p].k = "news_line" =>
                    \E q \in 1..(p - 1) :
                        /\ b[q] = WordHeader(b[p].i)
                        /\ Before(b, StatsHeader, q)
              /\ b[p].k = "new_line" =>
                    \E q \in 1..(p - 1) :
                        /\ b[q] = SourceHeader(b[p].i)
                        /\ Before(b, NewHeader, q)
              /\ b[p].k = "failed_line" => Before(b, FailedHeader, p)

\* A remaining title line of a source group overflowed and a failed-id line
\* overflowed.
C20_Witness ==
    /\ Done
    /\ \E n \in 2..Len(batches) :
          /\ Len(batches[n]) >= 4
          /\ batches[n][4].k = "new_line"
          /\ batches[n][4].j >= 2
          /\ CountTok(batches[n - 1], SourceHeader(batches[n][4].i)) = 1
    /\ \E n \in 2..Len(batches) :
          /\ Len(batches[n]) >= 3
          /\ batches[n][3].k = "failed_line"
          /\ CountTok(batches[n - 1], FailedHeader) = 1

\* C21: the step after a word of the stats section leaves the batch list and
\* the content flag alone; it appends the separator to the current batch when
\* another word follows and size(current + separator) + size(footer) <
\* max_bytes, and leaves the current batch alone otherwise.  A batch that ends
\* with a separator is therefore under max_bytes, and the returned batches hold
\* no separator of the last word.
C21_SeparatorOnlyWhenItFits ==
    [][pc = "separator" =>
          /\ batches' = batches
          /\ current_batch_has_content' = current_batch_has_content
          /\ IF /\ wi < Len(report_data.stats)
                /\ Bytes(current_batch \o <<Separator(wi)>>) + Bytes(<<BaseFooter>>) < max_bytes
             THEN /\ current_batch' = current_batch \o <<Separator(wi)>>
                  /\ Bytes(current_batch') + Bytes(<<BaseFooter>>) < max_bytes
             ELSE current_batch' = current_batch
          /\ CountTok(current_batch', Separator(Len(report_data.stats))) = 0]_vars

\* A separator was dropped after a word whose batch was within max_bytes, and
\* the next word started a new batch.
C21_Witness ==
    /\ Done
    /\ Len(report_data.stats) >= 2
    /\ CountTok(Flat, Separator(1)) = 0
    /\ SeparatorBytes > 0
    /\ \E n \in 1..(Len(batches) - 1) :
          /\ CountTok(batches[n], WordHeader(1)) = 1
          /\ CountTok(batches[n + 1], WordHeader(2)) = 1
          /\ Bytes(batches[n]) < max_bytes

\* C22: the step after a source group, the last one included, appends the
\* newline to the current batch whatever the sizes are and flushes nothing; a
\* returned batch that holds two or more units is at most max_bytes, and is
\* max_bytes exactly only with the newline as its last fragment before the
\* footer.
C22_NewlineUntested ==
    /\ [][pc = "newline" =>
             /\ current_batch' = current_batch \o <<Newline(wi)>>
             /\ batches' = batches
             /\ current_batch_has_content' = current_batch_has_content]_vars
    /\ [](Done => \A b \in BatchSet :
              Cardinality(UnitsIn(b)) >= 2 =>
                  /\ Bytes(b) <= max_bytes
                  /\ Bytes(b) = max_bytes => b[Len(b) - 1].k = "newline")

\* A batch of the new-titles section whose tested content was one byte under
\* the budget reached max_bytes with the newline.
C22_Witness ==
    /\ Done
    /\ \E b \in BatchSet :
          /\ Bytes(b) = max_bytes
          /\ b[Len(b) - 1].k = "newline"
          /\ Bytes(WithoutNewlines(b)) = max_bytes - 1
          /\ Cardinality(UnitsIn(b)) >= 2

\* cur, the batch list and the content flag after unit was tested against cur
\* and, on overflow, started a new batch with prefix.
TestedAlone(unit, prefix) ==
    IF Bytes(current_batch \o unit) + Bytes(<<BaseFooter>>) < max_bytes
    THEN /\ current_batch' = current_batch \o unit
         /\ batches' = batches
    ELSE /\ current_batch' = prefix \o unit
         /\ batches' = IF current_batch_has_content
                       THEN Append(batches, current_batch \o <<BaseFooter>>)
                       ELSE batches

\* C23: in the failed-sources section the failure banner is tested and
\* committed alone, and then every failed id, the first one included, is tested
\* and committed alone; a failed-id line that overflows starts the batch base
\* header + failure banner + that line.
C23_FailedIdTestedAlone ==
    [][/\ (pc = "section" /\ sect <= 3 /\ Tested = <<FailedHeader>>) =>
              TestedAlone(<<FailedHeader>>, <<BaseHeader>>)
       /\ pc = "failed" =>
              TestedAlone(<<FailedLine(wi)>>, <<BaseHeader, FailedHeader>>)]_vars

\* The failure banner was committed to a batch that holds units, and the first
\* failed id started the next batch.
C23_Witness ==
    /\ Done
    /\ \E n \in 1..(Len(batches) - 1) :
          /\ Len(batches[n]) >= 2
          /\ batches[n][Len(batches[n]) - 1] = FailedHeader
          /\ UnitsIn(batches[n]) # {}
          /\ Len(batches[n + 1]) >= 3
          /\ SubSeq(batches[n + 1], 1, 3) = <<BaseHeader, FailedHeader, FailedLine(1)>>

\* C24: when the list given to add_batch_headers has between 2 and 99 batches
\* and each of them is within the destination limit minus
\* _get_max_batch_header_size(dialect), add_batch_headers called with the
\* destination limit truncates nothing, and every batch it returns (header +
\* content) is within the destination limit.
C24_ReserveGuarantee ==
    (/\ hb_pc = "done"
     /\ Len(hb_batches) \in 2..ReserveBatches
     /\ \A i \in 1..Len(hb_batches) :
           EncodedSize(hb_batches[i]) <= hb_max - MaxBatchHeaderSize(hb_format)) =>
        /\ hb_warned = {}
        /\ \A i \in 1..Len(hb_batches) :
              /\ hb_result[i] =
                    <<BatchHeader(hb_format, i, Len(hb_batches))>> \o hb_batches[i]
              /\ EncodedSize(hb_result[i]) <= hb_max

\* 99 batches that fill the reduced budget: the two-digit headers bring them
\* to the destination limit exactly.
C24_Witness ==
    /\ hb_pc = "done"
    /\ Len(hb_batches) = ReserveBatches
    /\ \A i \in 1..Len(hb_batches) :
          EncodedSize(hb_batches[i]) = hb_max - MaxBatchHeaderSize(hb_format)
    /\ hb_warned = {}
    /\ EncodedSize(hb_result[ReserveBatches]) = hb_max

\* C25: with more than one batch, every string add_batch_headers has built
\* starts with exactly the header of its number; its content is cut, and the
\* warning printed, exactly when size(content) > max_bytes - size(header); the
\* kept content is a prefix of the original, the whole of it when nothing is
\* cut; and at the return no batch was dropped.
C25_OnlyContentTruncated ==
    Len(hb_batches) > 1 =>
        /\ \A n \in 1..Len(hb_result) :
              LET header == BatchHeader(hb_format, n, Len(hb_batches))
                  over == EncodedSize(hb_batches[n]) > hb_max - EncodedSize(<<header>>)
              IN  /\ Len(hb_result[n]) >= 1
                  /\ hb_result[n][1] = header
                  /\ n \in hb_warned <=> over
                  /\ IsPrefix(Tail(hb_result[n]), hb_batches[n])
                  /\ ~over => Tail(hb_result[n]) = hb_batches[n]
        /\ hb_warned \subseteq 1..Len(hb_result)
        /\ hb_pc = "done" => Len(hb_result) = Len(hb_batches)

\* One batch was cut to a shorter content behind its whole header, and one
\* was left whole.
C25_Witness ==
    /\ hb_pc = "done"
    /\ \E n \in hb_warned :
          /\ Len(Tail(hb_result[n])) < Len(hb_batches[n])
          /\ hb_result[n][1] = BatchHeader(hb_format, n, Len(hb_batches))
    /\ \E n \in 1..Len(hb_result) : n \notin hb_warned /\ Len(hb_batches[n]) > 0

\* C26: every batch returned for a report with content holds at least one item
\* (an atomic unit, a title line or a failed-id line); none holds only the base
\* header, section banners and the footer.
C26_EveryBatchHoldsAnItem ==
    (Done /\ ~EmptyReport) => \A b \in BatchSet : UnitsIn(b) # {}

\* The candidates the run tests: the banner of every non-empty section and
\* every unit.
NumCandidates ==
    Cardinality({sec \in {"stats", "new_titles", "failed_ids"} : Len(report_data[sec]) > 0})
        + Cardinality(Units)

\* C27: for a report with content, the content flag is set when the last
\* section has ended; the run returns at least one batch, the last of them the
\* batch that was being filled with the footer added, and no more batches than
\* candidates it tested.
C27_FinalFlush ==
    ~EmptyReport =>
        /\ (pc = "section" /\ sect > 3) => current_batch_has_content
        /\ Done =>
              /\ Len(batches) >= 1
              /\ batches[Len(batches)] = current_batch \o <<BaseFooter>>
              /\ Len(batches) <= NumCandidates

\* As many batches as candidates, the last of them flushed at the end.
C27_Witness ==
    /\ Done
    /\ ~EmptyReport
    /\ Len(batches) = NumCandidates
    /\ Len(batches) >= 3
    /\ UnitsIn(batches[Len(batches)]) # {}

IsStatsLine(t) == t.k = "news_line"
IsNewLine(t) == t.k = "new_line"
IsFailedLine(t) == t.k = "failed_line"
IsWordHeader(t) == t.k = "word_header"
IsSourceHeader(t) == t.k = "source_header"

\* s is non-decreasing in the index i of its fragments
InInputOrder(s) == \A p \in 1..(Len(s) - 1) : s[p].i <= s[p + 1].i

\* C28: a step never changes, removes or reorders a batch of the output list,
\* it only appends one; in the returned batches taken in order, the title
\* lines of the stats section are the lines 1..n of word 1, then of word 2,
\* ..., likewise the title lines of the source groups and the failed ids, and
\* the word and source banners come in input order.
C28_SinglePassInOrder ==
    /\ [][IsPrefix(batches, batches') /\ Len(batches') <= Len(batches) + 1]_vars
    /\ [](Done =>
            /\ SelectSeq(Flat, IsStatsLine) =
                  Flatten([i \in WordIdx |->
                             [j \in 1..Len(report_data.stats[i].titles) |-> StatsLine(i, j)]])
            /\ SelectSeq(Flat, IsNewLine) =
                  Flatten([i \in SourceIdx |->
                             [j \in 1..Len(report_data.new_titles[i].titles) |-> NewLine(i, j)]])
            /\ SelectSeq(Flat, IsFailedLine) = [i \in FailedIdx |-> FailedLine(i)]
            /\ InInputOrder(SelectSeq(Flat, IsWordHeader))
            /\ InInputOrder(SelectSeq(Flat, IsSourceHeader)))

\* Two words, and the two title lines of one word in different batches of
\* three or more.
C28_Witness ==
    /\ Done
    /\ Len(batches) >= 3
    /\ Len(report_data.stats) >= 2
    /\ \E i \in WordIdx : \E m, n \in 1..Len(batches) :
          /\ m < n
          /\ CountTok(batches[m], StatsLine(i, 1)) = 1
          /\ CountTok(batches[n], StatsLine(i, 2)) = 1

\* C29: for N >= 0 and a string S that does not fit in N bytes, the result of
\* _truncate_to_bytes(S, N) is the longest prefix of whole characters of S
\* whose encoding has at most N bytes: the next character of S would not fit,
\* at most 3 bytes of the N are left unused, and the result is empty only when
\* the first character of S does not fit.
C29_LongestPrefix ==
    (tr_pc = "done" /\ tr_n >= 0 /\ EncodedSize(tr_text) > tr_n) =>
        /\ IsPrefix(tr_out, tr_text)
        /\ Len(tr_out) < Len(tr_text)
        /\ EncodedSize(tr_out) <= tr_n
        /\ EncodedSize(SubSeq(tr_text, 1, Len(tr_out) + 1)) > tr_n
        /\ tr_n - EncodedSize(tr_out) <= 3
        /\ tr_out = <<>> => tr_text[1].w > tr_n

\* A four-byte character was cut after its third byte, behind a kept character.
C29_Witness ==
    /\ tr_pc = "done"
    /\ tr_n >= 0
    /\ EncodedSize(tr_text) > tr_n
    /\ tr_out # <<>>
    /\ tr_n - EncodedSize(tr_out) = 3

\* C30: in send_to_feishu, _dingtalk, _wework, _telegram and _slack the posts
\* are the batches 1, 2, ... in order, every post but the last one logged was
\* accepted (status 200 and a body that reports success), a post that was not
\* accepted is the last event of the run, and the function returns True
\* exactly when all batches were posted and accepted, False otherwise.
C30_StopAtFirstFailure ==
    sn_sender \in OrderedSenders =>
        /\ \A k \in 1..Len(Posts) : Posts[k].batch = k
        /\ \A k \in 1..(Len(Posts) - 1) : Posts[k].outcome = "accepted"
        /\ \A p \in 1..Len(sn_log) :
              (IsPost(sn_log[p]) /\ sn_log[p].outcome # "accepted") =>
                  (p = Len(sn_log) /\ sn_pc = "done" /\ sn_return = "False")
        /\ sn_pc = "done" =>
              /\ sn_return \in {"True", "False"}
              /\ sn_return = "True" <=>
                    /\ Len(Posts) = sn_total
                    /\ \A k \in 1..Len(Posts) : Posts[k].outcome = "accepted"

\* The second of three batches failed after the first was accepted.
C30_Witness ==
    /\ sn_sender \in OrderedSenders
    /\ sn_pc = "done"
    /\ sn_total = 3
    /\ Len(Posts) = 2
    /\ Posts[1].outcome = "accepted"
    /\ Posts[2].outcome = "rejected"
    /\ sn_return = "False"

\* The batches with a post that the sender took as a success.
SentBatches ==
    {b \in 1..sn_total :
        \E k \in 1..Len(Posts) : Posts[k].batch = b /\ Accepted(sn_sender, Posts[k].outcome)}

\* C31: in send_to_ntfy and send_to_bark the loop posts every batch whatever
\* the earlier posts came back with, success_count is the number of batches
\* that were accepted (so at most the number of batches), and the function
\* returns True exactly when at least one batch was accepted.
C31_PartialSuccess ==
    sn_sender \in ReversedSenders =>
        /\ sn_success_count = Cardinality(SentBatches)
        /\ sn_success_count <= sn_total
        /\ (sn_pc \in {"loop", "retry"}) =>
              \A k \in 1..Len(FirstPosts) : FirstPosts[k].batch = sn_total - k + 1
        /\ (sn_pc = "done" /\ sn_device_key) =>
              /\ Len(FirstPosts) = sn_total
              /\ \A b \in 1..sn_total : \E k \in 1..Len(FirstPosts) : FirstPosts[k].batch = b
        /\ sn_pc = "done" =>
              /\ sn_return \in {"True", "False"}
              /\ sn_return = "True" <=> SentBatches # {}

\* Three batches: the first two posts fail (an exception, a bad status), the
\* third is accepted, and the result is True with one batch counted.
C31_Witness ==
    /\ sn_sender \in ReversedSenders
    /\ sn_pc = "done"
    /\ sn_total = 3
    /\ Len(Posts) = 3
    /\ Posts[1].outcome = "exception"
    /\ Posts[2].outcome = "bad_status"
    /\ Posts[3].outcome = "accepted"
    /\ sn_success_count = 1
    /\ sn_return = "True"

\* The places of the log where batch b was posted.
PostsOf(b) == {p \in 1..Len(sn_log) : IsPost(sn_log[p]) /\ sn_log[p].batch = b}
IsRetryWait(e, b) == e.ev = "sleep" /\ e.retry /\ e.batch = b

\* C32: in send_to_ntfy a post answered 429 is followed by the wait and then
\* by one more post of the same batch, no other post is a retry, no batch is
\* posted more than twice or counted more than once, and whatever the retry
\* comes back with (an exception included) the remaining batches are posted.
C32_RetryOnceAfterWait ==
    sn_sender \in ReversedSenders =>
        /\ \A p \in 1..Len(sn_log) :
              LET e == sn_log[p] IN
              /\ (IsPost(e) /\ e.retry) =>
                    /\ sn_sender = "ntfy"
                    /\ p >= 3
                    /\ IsRetryWait(sn_log[p - 1], e.batch)
                    /\ IsFirstPost(sn_log[p - 2])
                    /\ sn_log[p - 2].batch = e.batch
                    /\ sn_log[p - 2].outcome = "rate_limited"
              /\ (IsFirstPost(e) /\ e.outcome = "rate_limited" /\ sn_sender = "ntfy") =>
                    /\ p + 1 <= Len(sn_log)
                    /\ IsRetryWait(sn_log[p + 1], e.batch)
                    /\ IF p + 2 <= Len(sn_log)
                       THEN IsPost(sn_log[p + 2]) /\ sn_log[p + 2].retry
                                /\ sn_log[p + 2].batch = e.batch
                       ELSE sn_pc = "retry"
        /\ \A b \in 1..sn_total :
              /\ Cardinality(PostsOf(b)) <= 2
              /\ Cardinality({p \in PostsOf(b) : Accepted(sn_sender, sn_log[p].outcome)}) <= 1
        /\ sn_success_count = Cardinality(SentBatches)
        /\ (sn_pc = "done" /\ sn_device_key) =>
              \A b \in 1..sn_total : \E p \in PostsOf(b) : IsFirstPost(sn_log[p])

\* The last batch is answered 429, its retry raises, and the batch before it
\* is posted all the same and accepted.
C32_Witness ==
    /\ sn_sender = "ntfy"
    /\ sn_total >= 2
    /\ Len(sn_log) >= 4
    /\ sn_log[1] = PostEvent(sn_total, sn_total, FALSE, "rate_limited")
    /\ sn_log[2] = SleepEvent(sn_total, TRUE)
    /\ sn_log[3] = PostEvent(sn_total, sn_total, TRUE, "exception")
    /\ sn_log[4] = PostEvent(sn_total - 1, sn_total - 1, FALSE, "accepted")

\* C33: every request of send_to_ntfy (retries included) whose batch carries a
\* sequence header has in its Title the batch number of that header, and a
\* request whose batch carries no header (a single batch) has no number in its
\* Title.
C33_TitleMatchesSequenceHeader ==
    sn_sender = "ntfy" =>
        \A k \in 1..Len(Posts) :
            LET header == InjectedHeader("ntfy", sn_total, Posts[k].batch)
            IN  /\ (header # <<>>) <=> (sn_total > 1)
                /\ IF header = <<>>
                   THEN Posts[k].title = 0
                   ELSE /\ Posts[k].title = header[1].batch_num
                        /\ header[1].total_batches = sn_total

\* Three batches posted 3, 2, 1, the second one twice.
C33_Witness ==
    /\ sn_sender = "ntfy"
    /\ sn_pc = "done"
    /\ sn_total = 3
    /\ Len(Posts) = 4
    /\ Posts[1].title = 3
    /\ Posts[2].title = 2 /\ Posts[3].title = 2 /\ Posts[3].retry
    /\ Posts[4].title = 1

\* An earlier run of today recorded a push.
RecordedEarlier == \E k \in 1..Len(nt_history) : nt_history[k].recorded

\* The push window is on and the run is outside the window, or once a day is
\* set and a push was recorded today before the run.
GateClosed ==
    /\ nt_config.ENABLED
    /\ ~nt_in_range \/ (nt_config.ONCE_PER_DAY /\ RecordedEarlier)

NothingDone ==
    /\ ~nt_prepared
    /\ nt_sent = <<>>
    /\ DOMAIN nt_results = {}

\* C34: with the push window on, a run outside the window, or with once a day
\* set after a push recorded today, calls no send_to_* function, prepares no
\* report data and returns the empty result map; and while the gate has not
\* been evaluated nothing is prepared or sent.
C34_GateBeforeAnything ==
    nt_pc # "idle" =>
        /\ nt_pc = "gate" => NothingDone
        /\ (GateClosed /\ nt_pc # "gate") =>
              /\ nt_pc = "done"
              /\ NothingDone
              /\ ~nt_recorded

\* The second run of the day, inside the window, after a first run that
\* recorded its push: two accounts and the mail are configured, nothing is sent.
C34_Witness ==
    /\ nt_pc = "done"
    /\ nt_config.ENABLED /\ nt_config.ONCE_PER_DAY /\ nt_config.EMAIL
    /\ nt_in_range
    /\ Len(nt_history) = 1
    /\ nt_history[1].recorded
    /\ Len(nt_history[1].sent) = 3
    /\ NothingDone

\* A channel reported success in the run with these results.
Succeeded(results) == \E c \in DOMAIN results : results[c] = TRUE
SucceededEarlier == \E k \in 1..Len(nt_history) : Succeeded(nt_history[k].results)
RecordsPushes == nt_config.ENABLED /\ nt_config.ONCE_PER_DAY

\* C35: a run calls record_push, at its end, exactly when the window is on,
\* once a day is set and one of its channels reported success; with both set,
\* after a run with a success the later runs of the day call no send_to_*
\* function, and after runs without any success (all channels failed, or none
\* configured) a run inside the window still prepares and sends.
C35_RecordIffSuccess ==
    nt_pc # "idle" =>
        /\ nt_pc # "done" => ~nt_recorded
        /\ nt_pc = "done" => (nt_recorded <=> (RecordsPushes /\ Succeeded(nt_results)))
        /\ \A k \in 1..Len(nt_history) :
              nt_history[k].recorded <=> (RecordsPushes /\ Succeeded(nt_history[k].results))
        /\ (RecordsPushes /\ SucceededEarlier) =>
              (nt_sent = <<>> /\ DOMAIN nt_results = {} /\ ~nt_recorded)
        /\ (~SucceededEarlier /\ nt_in_range /\ nt_pc \notin {"gate", "prepare"}) =>
              nt_prepared
        /\ nt_pushed <=> (nt_recorded \/ RecordedEarlier)

\* The first run of the day called two accounts and the mail, all failed and
\* nothing was recorded; the second run sent again, succeeded and recorded.
C35_Witness ==
    /\ nt_pc = "done"
    /\ RecordsPushes
    /\ Len(nt_history) = 1
    /\ Len(nt_history[1].sent) = 3
    /\ ~Succeeded(nt_history[1].results)
    /\ ~nt_history[1].recorded
    /\ Len(nt_sent) = 3
    /\ nt_recorded

\* The lists of the paired channels as parse_multi_account_config returns them.
TelegramTokens == ParseMultiAccountConfig(nt_config.TELEGRAM_BOT_TOKEN)
TelegramChatIds == ParseMultiAccountConfig(nt_config.TELEGRAM_CHAT_ID)
NtfyTopics == ParseMultiAccountConfig(nt_config.NTFY_TOPIC)
NtfyTokens == ParseMultiAccountConfig(nt_config.NTFY_TOKEN)
TelegramMismatch ==
    /\ TelegramTokens # <<>> /\ TelegramChatIds # <<>>
    /\ Len(TelegramTokens) # Len(TelegramChatIds)
NtfyMismatch == NtfyTokens # <<>> /\ Len(NtfyTokens) # Len(NtfyTopics)
CallsOf(ch) == {k \in 1..Len(nt_sent) : nt_sent[k].channel = ch}

\* The run passed the gate and is beyond the block of channel ch.
Beyond(ch) ==
    /\ nt_prepared
    /\ \/ nt_pc \in {"record", "done"}
       \/ \E m, n \in 1..Len(ChannelOrder) :
             m < n /\ ChannelOrder[m] = ch /\ ChannelOrder[n] = nt_pc

\* C36: with Telegram token and chat-id lists of different lengths, or ntfy
\* tokens configured in another number than the topics, no send_to_* call is
\* made for the channel and the result map has no entry for it; with lists
\* of equal length the channel gets its entry and every call of account i
\* carries field i of both lists, whatever the account limit.
C36_PairedLists ==
    nt_pc # "idle" =>
        /\ TelegramMismatch => (CallsOf("telegram") = {} /\ "telegram" \notin DOMAIN nt_results)
        /\ NtfyMismatch => (CallsOf("ntfy") = {} /\ "ntfy" \notin DOMAIN nt_results)
        /\ \A k \in CallsOf("telegram") :
              /\ nt_sent[k].a = nt_config.TELEGRAM_BOT_TOKEN[nt_sent[k].i]
              /\ nt_sent[k].b = nt_config.TELEGRAM_CHAT_ID[nt_sent[k].i]
              /\ nt_sent[k].a # 0 /\ nt_sent[k].b # 0
        /\ \A k \in CallsOf("ntfy") :
              /\ nt_sent[k].a = nt_config.NTFY_TOPIC[nt_sent[k].i]
              /\ nt_sent[k].a # 0
              /\ nt_sent[k].b = IF NtfyTokens = <<>> THEN 0
                                ELSE nt_config.NTFY_TOKEN[nt_sent[k].i]
        /\ (Beyond("telegram") /\ TelegramTokens # <<>> /\ TelegramChatIds # <<>>
               /\ ~TelegramMismatch) => "telegram" \in DOMAIN nt_results
        /\ (Beyond("ntfy") /\ nt_config.NTFY_SERVER_URL /\ NtfyTopics # <<>>
               /\ ~NtfyMismatch) => "ntfy" \in DOMAIN nt_results

\* Three tokens and three chat ids, the second token an empty placeholder, a
\* limit of two: only account 1 is called, with token 1 and chat id 1.
C36_Witness ==
    /\ nt_pc = "done"
    /\ nt_config.TELEGRAM_BOT_TOKEN = <<11, 0, 13>>
    /\ nt_config.TELEGRAM_CHAT_ID = <<21, 22, 23>>
    /\ nt_config.MAX_ACCOUNTS_PER_CHANNEL = 2
    /\ Len(nt_sent) = 1
    /\ nt_sent[1] = Call("telegram", 1, 11, 21, TRUE)
    /\ nt_results["telegram"]

\* The first list of a channel as parse_multi_account_config returns it.
AccountsOf(ch) ==
    CASE ch \in SingleListChannels -> ParseMultiAccountConfig(nt_config[ConfigKey(ch)])
      [] ch = "telegram" -> TelegramTokens
      [] ch = "ntfy" -> NtfyTopics

\* C37: limit_accounts returns the first min(len(accounts), max_count)
\* elements of every configured list, for every limit; the accounts called
\* are among the first MAX_ACCOUNTS_PER_CHANNEL of the list and are no empty
\* placeholders; and the result of a channel is True exactly when one of its
\* calls returned True.
C37_AccountLimit ==
    nt_pc # "idle" =>
        \A ch \in Channels \ {"email"} :
            LET max_count == nt_config.MAX_ACCOUNTS_PER_CHANNEL IN
            /\ LimitAccounts(AccountsOf(ch), max_count)
                   = SubSeq(AccountsOf(ch), 1, Min(Len(AccountsOf(ch)), max_count))
            /\ \A k \in CallsOf(ch) :
                  /\ nt_sent[k].i <= max_count
                  /\ nt_sent[k].a # 0
                  /\ nt_sent[k].a = AccountsOf(ch)[nt_sent[k].i]
                  /\ \A n \in CallsOf(ch) : n < k => nt_sent[n].i < nt_sent[k].i
            /\ ch \in DOMAIN nt_results =>
                  (nt_results[ch] <=> \E k \in CallsOf(ch) : nt_sent[k].ok)

\* The title lines written so far, in the batches and in the open batch.
WrittenTitleLines ==
    {t \in {Flat[p] : p \in 1..Len(Flat)}
              \cup {current_batch[p] : p \in 1..Len(current_batch)} :
        t.k \in {"news_line", "new_line"}}

\* C38: the title lines of one source group of the new-titles section are
\* all rendered by the same formatter (the one of line 1 is the one of lines
\* 2, 3, ...), and so are the title lines of one word of the stats section,
\* for every dialect.
C38_SameFormatterInGroup ==
    \A t, u \in WrittenTitleLines : (t.k = u.k /\ t.i = u.i) => t.f = u.f

\* Totals the reserve does not cover.
LargerTotals == (ReserveBatches + 1)..(10 * ReserveBatches + 10)
HeaderSize(fmt, i, total) == EncodedSize(<<BatchHeader(fmt, i, total)>>)

\* C39: for the dialect of the call and all 1 <= i <= total <= 99 the header
\* i/total is at most _get_max_batch_header_size(dialect) bytes long, and the
\* header total/total of a larger total is longer (evaluated once per dialect
\* and limit, at the call with a single empty batch); each header
\* add_batch_headers builds obeys the same, looked at when it is the newest.
C39_HeaderWithinReserve ==
    /\ (hb_pc = "start" /\ hb_batches = <<<<>>>>) =>
          /\ \A total \in 1..ReserveBatches : \A i \in 1..total :
                HeaderSize(hb_format, i, total) <= MaxBatchHeaderSize(hb_format)
          /\ \A total \in LargerTotals :
                HeaderSize(hb_format, total, total) > MaxBatchHeaderSize(hb_format)
    /\ (hb_pc \in {"loop", "done"} /\ HeadersNeeded(hb_batches) /\ hb_result # <<>>) =>
          LET k == Len(hb_result)
              size == EncodedSize(<<hb_result[k][1]>>)
          IN  /\ Len(hb_batches) <= ReserveBatches => size <= MaxBatchHeaderSize(hb_format)
              /\ (Len(hb_batches) > ReserveBatches /\ k = Len(hb_batches)) =>
                    size > MaxBatchHeaderSize(hb_format)

\* 100 batches: the header 1/100 is as long as the reserve, the header
\* 100/100 two bytes longer.
C39_Witness ==
    /\ hb_pc = "done"
    /\ Len(hb_batches) = ReserveBatches + 1
    /\ Len(hb_result) = ReserveBatches + 1
    /\ EncodedSize(<<hb_result[1][1]>>) = MaxBatchHeaderSize(hb_format)
    /\ EncodedSize(<<hb_result[ReserveBatches + 1][1]>>) = MaxBatchHeaderSize(hb_format) + 2

====
